---- MODULE Spec2Model ----
(***************************************************************************)
(* Model of the decision engine of the trading bot:                        *)
(*   gbsb/risk_management/risk_levels.py    RiskManager                    *)
(*   gbsb/ai/autopilot_engine.py            AutopilotEngine                *)
(*   gbsb/ai/auto_opportunity_detector.py   AutoOpportunityDetector        *)
(*   gbsb/scanners/pair_scanner.py          PairScanner                    *)
(* Python floats are modelled by exact rationals <<n, d>>, d > 0, in       *)
(* lowest terms, so that sums, products and quotients compare exactly.     *)
(* Every subsystem has its own specification; the variables of the other   *)
(* subsystems stay at their construction values.                           *)
(***************************************************************************)
EXTENDS Integers, Sequences, FiniteSets, TLC

VARIABLES
    \* RiskManager
    current_risk_level,   \* self.current_risk_level
    current_metrics,      \* self.current_metrics (the fields the engine reads)
    stop_result,          \* what the latest should_emergency_stop() returned
    halt_reported,        \* history: some should_emergency_stop() returned True
    \* one calculate_position_size / validate_trade call
    sz_opportunity,       \* the QuickOpportunity argument
    sz_balance,           \* current_balance
    sz_volatility,        \* volatility
    sz_market,            \* market_conditions (a dict)
    sz_status,            \* "none", "ok" (returned) or "raised"
    sizing,               \* the PositionSizing returned
    \* one validate_trade call
    vt_call,              \* its arguments, the level and the stored max_drawdown
    vt_result,            \* (is_valid, reason) returned, or NotReturned
    \* one _filter_and_prioritize call
    fp_opportunities,     \* the list given
    fp_returned,          \* the list returned, or NotRanked
    \* one _consolidate_signals call
    fuse_results,         \* analysis_results[strategy][symbol] for the first symbol
    fuse_status,          \* "none", "done" (one call returned) or "again" (two did)
    fused,                \* the TradingSignal returned
    fuse_timestamp,       \* its timestamp field
    fuse_first,           \* the TradingSignal the first call returned
    fuse_now,             \* datetime.now()
    \* AutopilotEngine
    ap_config,            \* self.config (trading_enabled, dry_run, ai_ollama_enabled)
    ap_status,            \* self.status
    ap_is_running,        \* self.is_running
    ap_exchange,          \* self.exchange_manager is not None
    ap_ollama,            \* self.ollama_ai is not None
    ap_init,              \* an initialize() call: "idle" or "connecting"
    ap_loop,              \* position of each _main_loop task
    ap_trades,            \* trade_history: number of records per calendar day
    ap_day,               \* datetime.now().date()
    ap_order_placed,      \* history: an order was sent to an exchange
    ap_close_requested,   \* history: _close_all_positions asked an exchange
    \* PairScanner
    pairs_cache,          \* number of pairs loaded for the exchange
    market_data_cache,    \* cache key -> frame, or NoFrame
    opportunities_cache,  \* self.opportunities_cache
    sc_scan,              \* position of scan_all_opportunities
    sc_scans,             \* scans begun so far
    sc_batch,             \* index before the first task of the batch gathered
    sc_item,              \* position of every scan task
    sc_data,              \* the frame every scan task works on
    sc_result,            \* what every finished scan task returned
    sc_raised,            \* the scan tasks in which an exception was raised
    all_opportunities,    \* the local list of scan_all_opportunities
    sc_returned,          \* the list the last scan returned
    \* AutoOpportunityDetector
    dt_config,            \* self.config (risk_level, enable_news_analysis, enable_ai_analysis)
    dt_scanner,           \* self.pair_scanner is not None
    dt_ollama,            \* self.ollama_ai is not None
    dt_news,              \* self.news_analyzer is not None
    dt_is_running,        \* self.is_running
    detected_opportunities,  \* self.detected_opportunities, the published list
    active_positions,     \* self.active_positions
    dt_loop,              \* position of each _detection_loop task
    dt_cycle,             \* the locals of the cycle of each _detection_loop task
    \* one computation of the normalized scores
    score_inputs,         \* the arguments the scores are computed from
    scores,               \* the scores computed, or NotComputed
    \* one _calculate_stop_take_profit call
    stp_call,             \* action, current_price and the support/resistance levels
    stp_result            \* (stop_loss, take_profit) returned, or StpNotReturned

riskVars == <<current_risk_level, current_metrics, stop_result, halt_reported>>
sizingVars == <<sz_opportunity, sz_balance, sz_volatility, sz_market, sz_status, sizing>>
vtVars == <<vt_call, vt_result>>
fpVars == <<fp_opportunities, fp_returned>>
fuseVars == <<fuse_results, fuse_status, fused, fuse_timestamp, fuse_first, fuse_now>>
apVars ==
    <<ap_config, ap_status, ap_is_running, ap_exchange, ap_ollama, ap_init, ap_loop,
      ap_trades, ap_day, ap_order_placed, ap_close_requested>>

scVars ==
    <<pairs_cache, market_data_cache, opportunities_cache, sc_scan, sc_scans, sc_batch,
      sc_item, sc_data, sc_result, sc_raised, all_opportunities, sc_returned>>

dtVars ==
    <<dt_config, dt_scanner, dt_ollama, dt_news, dt_is_running, detected_opportunities,
      active_positions, dt_loop, dt_cycle>>

scoreVars == <<score_inputs, scores>>
stpVars == <<stp_call, stp_result>>

vars == <<riskVars, sizingVars, vtVars, fpVars, fuseVars, apVars, scVars, dtVars, scoreVars, stpVars>>

\* what the operations of one component leave alone
notRisk == <<sizingVars, vtVars, fpVars, fuseVars, apVars, scVars, dtVars, scoreVars, stpVars>>
notSizing == <<riskVars, vtVars, fpVars, fuseVars, apVars, scVars, dtVars, scoreVars, stpVars>>
notValidate == <<riskVars, sizingVars, fpVars, fuseVars, apVars, scVars, dtVars, scoreVars, stpVars>>
notRank == <<riskVars, sizingVars, vtVars, fuseVars, apVars, scVars, dtVars, scoreVars, stpVars>>
notFuse == <<riskVars, sizingVars, vtVars, fpVars, apVars, scVars, dtVars, scoreVars, stpVars>>
notAutopilot == <<riskVars, sizingVars, vtVars, fpVars, fuseVars, scVars, dtVars, scoreVars, stpVars>>
notScanner == <<riskVars, sizingVars, vtVars, fpVars, fuseVars, apVars, dtVars, scoreVars, stpVars>>
notDetector == <<stop_result, halt_reported, sizingVars, vtVars, fpVars, fuseVars, apVars, scVars, scoreVars, stpVars>>

----------------------------------------------------------------------------
(* Rational arithmetic *)

RECURSIVE Gcd(_, _)
Gcd(a, b) == IF b = 0 THEN a ELSE Gcd(b, a % b)

Abs(x) == IF x < 0 THEN -x ELSE x

\* the rational n/d (d # 0) in lowest terms with a positive denominator
Q(n, d) ==
    LET g == Gcd(Abs(n), Abs(d))
        s == IF d < 0 THEN -1 ELSE 1
    IN  <<s * (n \div g), s * (d \div g)>>

QInt(n) == <<n, 1>>
QZero == <<0, 1>>
QOne == <<1, 1>>

QAdd(a, b) ==
    LET g == Gcd(a[2], b[2])
    IN  Q(a[1] * (b[2] \div g) + b[1] * (a[2] \div g), (a[2] \div g) * b[2])

QNeg(a) == <<-a[1], a[2]>>
QSub(a, b) == QAdd(a, QNeg(b))

\* cross-cancelled so that intermediate products stay small
QMul(a, b) ==
    LET g1 == Gcd(Abs(a[1]), b[2])
        g2 == Gcd(Abs(b[1]), a[2])
    IN  <<(a[1] \div g1) * (b[1] \div g2), (a[2] \div g2) * (b[2] \div g1)>>

\* a / b, b # 0
QDiv(a, b) == QMul(a, Q(b[2], b[1]))

QLt(a, b) == a[1] * b[2] < b[1] * a[2]
QLe(a, b) == a[1] * b[2] <= b[1] * a[2]
QGt(a, b) == QLt(b, a)
QGe(a, b) == QLe(b, a)
QMin(a, b) == IF QLe(a, b) THEN a ELSE b
QMax(a, b) == IF QGe(a, b) THEN a ELSE b
QAbs(a) == <<Abs(a[1]), a[2]>>

RECURSIVE QSum(_)
QSum(s) == IF s = <<>> THEN QZero ELSE QAdd(Head(s), QSum(Tail(s)))

----------------------------------------------------------------------------
(* RiskManager: profiles *)

RiskLevel == {"conservative", "aggressive", "turbo"}

risk_profiles ==
    [l \in RiskLevel |->
        CASE l = "conservative" ->
                [risk_level |-> l, max_leverage |-> QInt(2),
                 base_position_size |-> QInt(1000), max_position_size |-> QInt(5000),
                 stop_loss_percentage |-> Q(2, 100), take_profit_percentage |-> Q(4, 100),
                 max_drawdown |-> Q(5, 100), max_daily_trades |-> 5,
                 risk_per_trade |-> Q(1, 100), confidence_threshold |-> Q(8, 10),
                 emergency_stop_loss |-> Q(3, 100),
                 position_sizing_method |-> "kelly_criterion",
                 diversification_limit |-> 3]
          [] l = "aggressive" ->
                [risk_level |-> l, max_leverage |-> QInt(5),
                 base_position_size |-> QInt(2000), max_position_size |-> QInt(10000),
                 stop_loss_percentage |-> Q(3, 100), take_profit_percentage |-> Q(6, 100),
                 max_drawdown |-> Q(10, 100), max_daily_trades |-> 15,
                 risk_per_trade |-> Q(25, 1000), confidence_threshold |-> Q(7, 10),
                 emergency_stop_loss |-> Q(5, 100),
                 position_sizing_method |-> "volatility_adjusted",
                 diversification_limit |-> 5]
          [] l = "turbo" ->
                [risk_level |-> l, max_leverage |-> QInt(10),
                 base_position_size |-> QInt(5000), max_position_size |-> QInt(20000),
                 stop_loss_percentage |-> Q(5, 100), take_profit_percentage |-> Q(10, 100),
                 max_drawdown |-> Q(20, 100), max_daily_trades |-> 30,
                 risk_per_trade |-> Q(5, 100), confidence_threshold |-> Q(6, 10),
                 emergency_stop_loss |-> Q(8, 100),
                 position_sizing_method |-> "momentum_based",
                 diversification_limit |-> 8]]

leverage_modes ==
    [l \in RiskLevel |->
        CASE l = "conservative" -> "fixed"
          [] l = "aggressive" -> "dynamic"
          [] l = "turbo" -> "adaptive"]

get_current_profile(level) == risk_profiles[level]

----------------------------------------------------------------------------
(* RiskManager: metrics *)

\* RiskMetrics as built by RiskManager.__init__
InitialMetrics ==
    [current_exposure |-> QZero, total_leverage |-> QOne, max_drawdown |-> QZero,
     win_rate |-> QZero, risk_score |-> QZero, margin_utilization |-> QZero]

\* np.cumsum(returns)[i], 1-based
RECURSIVE CumSum(_, _)
CumSum(returns, i) == IF i = 0 THEN 0 ELSE CumSum(returns, i - 1) + returns[i]

\* np.maximum.accumulate(cumulative_pnl)[i], 1-based, i >= 1
RECURSIVE RunningMax(_, _)
RunningMax(returns, i) ==
    IF i = 1 THEN CumSum(returns, 1)
    ELSE LET m == RunningMax(returns, i - 1)
             c == CumSum(returns, i)
         IN  IF c > m THEN c ELSE m

\* (cumulative_pnl - running_max) / (running_max + 1e-10) at index i.  The 1e-10
\* only matters where running_max = 0: the quotient is then 0 or of the order
\* of -1e10, which DrawdownBlowUp stands for.
DrawdownBlowUp == <<-1000000, 1>>
DrawdownAt(returns, i) ==
    LET c == CumSum(returns, i)
        m == RunningMax(returns, i)
    IN  IF c = m THEN QZero
        ELSE IF m = 0 THEN DrawdownBlowUp
        ELSE Q(c - m, m)

\* abs(np.min(drawdown))
RECURSIVE MinDrawdown(_, _)
MinDrawdown(returns, i) ==
    IF i = 1 THEN DrawdownAt(returns, 1)
    ELSE QMin(DrawdownAt(returns, i), MinDrawdown(returns, i - 1))

MaxDrawdownOf(returns) ==
    IF Len(returns) > 0 THEN QAbs(MinDrawdown(returns, Len(returns))) ELSE QZero

\* the RiskMetrics update_risk_metrics stores, for trades # [] and
\* current_balance > 0; exposure is sum(position_value), returns the pnl list
ComputeMetrics(exposure, returns, current_balance, level) ==
    LET total_trades == Len(returns)
        winning_trades == Cardinality({i \in 1..Len(returns) : returns[i] > 0})
        total_leverage == IF current_balance > 0 THEN Q(exposure, current_balance) ELSE QOne
        win_rate == IF total_trades > 0 THEN Q(winning_trades, total_trades) ELSE QZero
        max_drawdown == MaxDrawdownOf(returns)
        risk_score ==
            QMin(QOne,
                 QAdd(QAdd(QMul(total_leverage, Q(3, 10)), QMul(max_drawdown, Q(4, 10))),
                      QMul(QSub(QOne, win_rate), Q(3, 10))))
        margin_utilization ==
            QDiv(QInt(exposure),
                 QMul(QInt(current_balance), get_current_profile(level).max_leverage))
    IN  [current_exposure |-> QInt(exposure), total_leverage |-> total_leverage,
         max_drawdown |-> max_drawdown, win_rate |-> win_rate,
         risk_score |-> risk_score, margin_utilization |-> margin_utilization]

\* should_emergency_stop(): the boolean of the returned pair
should_emergency_stop(metrics, level) ==
    LET profile == get_current_profile(level)
    IN  \/ QGt(metrics.max_drawdown, profile.emergency_stop_loss)
        \/ QGt(metrics.risk_score, Q(9, 10))
        \/ QGt(metrics.margin_utilization, Q(95, 100))

\* get_risk_recommendations(): the recommendations made on the three metrics
\* that should_emergency_stop() looks at (those on win rate and
\* diversification are left out)
get_risk_recommendations(metrics, level) ==
    LET profile == get_current_profile(level)
    IN  (IF QGt(metrics.risk_score, Q(7, 10)) THEN {"risk_score"} ELSE {})
        \cup (IF QGt(metrics.max_drawdown, QMul(profile.max_drawdown, Q(8, 10)))
              THEN {"max_drawdown"} ELSE {})
        \cup (IF QGt(metrics.margin_utilization, Q(8, 10))
              THEN {"margin_utilization"} ELSE {})

\* the safety state the RiskManager reports: the emergency stop, else a
\* recommendation on one of its metrics, else nothing
safety_state(metrics, level) ==
    IF should_emergency_stop(metrics, level) THEN "halted"
    ELSE IF get_risk_recommendations(metrics, level) # {} THEN "warning"
    ELSE "normal"

----------------------------------------------------------------------------
(* RiskManager: position sizing *)

\* dict.get(key, default)
DictGet(d, key, default) == IF key \in DOMAIN d THEN d[key] ELSE default

EmptyDict == [k \in {} |-> QZero]

\* variant of calculate_dynamic_leverage: the dynamic and adaptive products are
\* returned without the min(..., base_leverage) clamp
calculate_dynamic_leverage_unclamped(opportunity, volatility, market_conditions, profile) ==
    LET base_leverage == profile.max_leverage
        leverage_mode == leverage_modes[profile.risk_level]
        trend == DictGet(market_conditions, "trend_strength", Q(1, 2))
    IN  IF leverage_mode = "fixed" THEN QMin(base_leverage, QInt(2))
        ELSE IF leverage_mode = "dynamic" THEN
            QMul(QMul(QMul(base_leverage, opportunity.confidence),
                      QMax(Q(1, 2), QSub(QOne, QDiv(volatility, Q(1, 10))))), trend)
        ELSE QMul(base_leverage,
                  QAdd(QAdd(Q(1, 2), QMul(trend, Q(3, 10))),
                       QMul(QMin(QOne, Q(opportunity.volume_24h, 10000000)), Q(2, 10))))

\* _calculate_dynamic_leverage(opportunity, volatility, market_conditions, profile)
calculate_dynamic_leverage(opportunity, volatility, market_conditions, profile) ==
    LET base_leverage == profile.max_leverage
        leverage_mode == leverage_modes[profile.risk_level]
    IN  IF leverage_mode = "fixed" THEN QMin(base_leverage, QInt(2))
        ELSE IF leverage_mode = "dynamic" THEN
            LET confidence_factor == opportunity.confidence
                volatility_factor ==
                    QMax(Q(1, 2), QSub(QOne, QDiv(volatility, Q(1, 10))))
                market_factor == DictGet(market_conditions, "trend_strength", Q(1, 2))
                dynamic_leverage ==
                    QMul(QMul(QMul(base_leverage, confidence_factor), volatility_factor),
                         market_factor)
            IN  QMin(dynamic_leverage, base_leverage)
        ELSE IF leverage_mode = "adaptive" THEN
            LET trend_factor == DictGet(market_conditions, "trend_strength", Q(1, 2))
                volume_factor == QMin(QOne, Q(opportunity.volume_24h, 10000000))
                adaptive_leverage ==
                    QMul(base_leverage,
                         QAdd(QAdd(Q(1, 2), QMul(trend_factor, Q(3, 10))),
                              QMul(volume_factor, Q(2, 10))))
            IN  QMin(adaptive_leverage, base_leverage)
        ELSE base_leverage

\* _calculate_base_position_size raises ZeroDivisionError: the Kelly quotient
\* divides by avg_win = opportunity.risk_reward_ratio
base_position_size_raises(opportunity, profile) ==
    /\ profile.position_sizing_method = "kelly_criterion"
    /\ opportunity.risk_reward_ratio = QZero

\* variant of kelly_fraction: the quotient is not limited to [0, 0.25]
kelly_fraction_unclamped(win_rate, avg_win) ==
    QDiv(QSub(QMul(win_rate, avg_win), QSub(QOne, win_rate)), avg_win)

\* kelly_fraction after max(0, min(kelly_fraction, 0.25)), avg_win # 0
kelly_fraction(win_rate, avg_win) ==
    LET raw == QDiv(QSub(QMul(win_rate, avg_win), QSub(QOne, win_rate)), avg_win)
    IN  QMax(QZero, QMin(raw, Q(25, 100)))

\* _calculate_base_position_size(opportunity, current_balance, profile)
calculate_base_position_size(opportunity, current_balance, profile) ==
    LET sizing_method == profile.position_sizing_method
    IN  IF sizing_method = "kelly_criterion" THEN
            QMul(current_balance,
                 kelly_fraction(opportunity.confidence, opportunity.risk_reward_ratio))
        ELSE IF sizing_method = "volatility_adjusted" THEN
            QMul(profile.base_position_size,
                 QDiv(QOne, QAdd(QOne, opportunity.volatility_score)))
        ELSE IF sizing_method = "momentum_based" THEN
            LET momentum_score ==
                    QDiv(QAdd(QAdd(opportunity.technical_score, opportunity.volume_score),
                              opportunity.volatility_score), QInt(3))
            IN  QMul(profile.base_position_size,
                     QAdd(Q(1, 2), QMul(momentum_score, Q(1, 2))))
        ELSE profile.base_position_size

\* variant of adjusted_position_size: the balance x max_leverage limit is missing
adjusted_position_size_no_balance_limit(base_size, leverage, current_balance, profile) ==
    QMin(QMul(base_size, leverage), profile.max_position_size)

\* adjusted_size = base_size * leverage, then the two min() limits
adjusted_position_size(base_size, leverage, current_balance, profile) ==
    QMin(QMin(QMul(base_size, leverage), profile.max_position_size),
         QMul(current_balance, profile.max_leverage))

NoSizing ==
    [base_size |-> QZero, leverage |-> QZero, adjusted_size |-> QZero,
     risk_amount |-> QZero, stop_distance |-> QZero, position_value |-> QZero,
     margin_required |-> QZero, max_loss |-> QZero]

\* calculate_position_size raises: in the base size, or in
\* margin_required = position_value / leverage when the leverage is 0
calculate_position_size_raises(opportunity, current_balance, volatility, market_conditions, level) ==
    LET profile == get_current_profile(level)
    IN  \/ base_position_size_raises(opportunity, profile)
        \/ calculate_dynamic_leverage(opportunity, volatility, market_conditions,
                                      profile) = QZero

\* calculate_position_size(opportunity, current_balance, volatility,
\* market_conditions) under the profile of `level`, when it returns
calculate_position_size(opportunity, current_balance, volatility, market_conditions, level) ==
    LET profile == get_current_profile(level)
        leverage ==
            calculate_dynamic_leverage(opportunity, volatility, market_conditions, profile)
        base_size == calculate_base_position_size(opportunity, current_balance, profile)
        adjusted_size == adjusted_position_size(base_size, leverage, current_balance, profile)
        stop_distance == QAbs(QSub(opportunity.entry_price, opportunity.stop_loss))
        risk_amount == QMul(adjusted_size, profile.risk_per_trade)
        position_value == QMul(adjusted_size, opportunity.entry_price)
    IN  [base_size |-> base_size, leverage |-> leverage, adjusted_size |-> adjusted_size,
         risk_amount |-> risk_amount, stop_distance |-> stop_distance,
         position_value |-> position_value,
         margin_required |-> QDiv(position_value, leverage),
         max_loss |-> risk_amount]

\* a position as validate_trade reads it: its position_value and whether its
\* timestamp (now, when it has none) is of today
Position(position_value, today) == [position_value |-> position_value, today |-> today]

\* sum(p.get('position_value', 0) for p in current_positions)
total_exposure(current_positions) ==
    QSum([i \in 1..Len(current_positions) |-> current_positions[i].position_value])

\* variant of validate_trade: the diversification limit is looked at before
\* the day's trade count
validate_trade_diversification_first(opportunity, position_sizing, current_positions, metrics, level) ==
    LET profile == get_current_profile(level)
        today_trades == Len(SelectSeq(current_positions, LAMBDA pos : pos.today))
    IN  IF QLt(opportunity.confidence, profile.confidence_threshold)
        THEN [valid |-> FALSE, reason |-> "confidence"]
        ELSE IF Len(current_positions) >= profile.diversification_limit
        THEN [valid |-> FALSE, reason |-> "diversification"]
        ELSE IF today_trades >= profile.max_daily_trades
        THEN [valid |-> FALSE, reason |-> "daily_trades"]
        ELSE IF QGt(QAdd(total_exposure(current_positions), position_sizing.position_value),
                    QMul(profile.max_position_size, QInt(profile.diversification_limit)))
        THEN [valid |-> FALSE, reason |-> "exposure"]
        ELSE IF QGt(position_sizing.leverage, profile.max_leverage)
        THEN [valid |-> FALSE, reason |-> "leverage"]
        ELSE IF QGt(metrics.max_drawdown, profile.max_drawdown)
        THEN [valid |-> FALSE, reason |-> "drawdown"]
        ELSE [valid |-> TRUE, reason |-> "ok"]

\* validate_trade(opportunity, position_sizing, current_positions) under the
\* profile of `level` and the stored metrics: the checks in the code's order,
\* the first that fails names the reason
validate_trade(opportunity, position_sizing, current_positions, metrics, level) ==
    LET profile == get_current_profile(level)
        today_trades == Len(SelectSeq(current_positions, LAMBDA pos : pos.today))
    IN  IF QLt(opportunity.confidence, profile.confidence_threshold)
        THEN [valid |-> FALSE, reason |-> "confidence"]
        ELSE IF today_trades >= profile.max_daily_trades
        THEN [valid |-> FALSE, reason |-> "daily_trades"]
        ELSE IF Len(current_positions) >= profile.diversification_limit
        THEN [valid |-> FALSE, reason |-> "diversification"]
        ELSE IF QGt(QAdd(total_exposure(current_positions), position_sizing.position_value),
                    QMul(profile.max_position_size, QInt(profile.diversification_limit)))
        THEN [valid |-> FALSE, reason |-> "exposure"]
        ELSE IF QGt(position_sizing.leverage, profile.max_leverage)
        THEN [valid |-> FALSE, reason |-> "leverage"]
        ELSE IF QGt(metrics.max_drawdown, profile.max_drawdown)
        THEN [valid |-> FALSE, reason |-> "drawdown"]
        ELSE [valid |-> TRUE, reason |-> "ok"]

NotReturned == [valid |-> FALSE, reason |-> "none"]

\* a validate_trade call about to be made with these arguments
ValidateConstructed(call) ==
    /\ vt_call = call
    /\ vt_result = NotReturned

NoCall ==
    [opportunity |-> [confidence |-> QZero],
     position_sizing |-> [position_value |-> QZero, leverage |-> QOne],
     current_positions |-> <<>>, metrics |-> [max_drawdown |-> QZero],
     level |-> "conservative"]

ValidateIdle == ValidateConstructed(NoCall)

\* validate_trade(opportunity, position_sizing, current_positions) returns
ValidateTrade ==
    /\ vt_result = NotReturned
    /\ vt_result' = validate_trade(vt_call.opportunity, vt_call.position_sizing,
                                   vt_call.current_positions, vt_call.metrics, vt_call.level)
    /\ UNCHANGED vt_call
    /\ UNCHANGED notValidate

----------------------------------------------------------------------------
(* AutopilotEngine: signal fusion *)

Strategies ==
    {"support_resistance", "channel_analysis", "ict_techniques", "fibonacci",
     "session_analysis", "spread_analysis"}

\* StrategyWeight[strategy.upper()].value
StrategyWeight ==
    [st \in Strategies |->
        CASE st = "support_resistance" -> Q(20, 100)
          [] st = "channel_analysis" -> Q(15, 100)
          [] st = "ict_techniques" -> Q(25, 100)
          [] st = "fibonacci" -> Q(15, 100)
          [] st = "session_analysis" -> Q(15, 100)
          [] st = "spread_analysis" -> Q(10, 100)]

\* sum(f[x] for x in S)
RECURSIVE SumOver(_, _)
SumOver(S, f) ==
    IF S = {} THEN QZero
    ELSE LET x == CHOOSE y \in S : TRUE
         IN  QAdd(f[x], SumOver(S \ {x}, f))

\* what an _analyze_* method returns on an exception
ErrorResult == [error |-> TRUE, action |-> "hold", confidence |-> QZero]

\* the strategies whose result enters `signals`: present for the symbol and
\* without an 'error' key
ValidSignals(analysis_results) ==
    {st \in DOMAIN analysis_results : ~analysis_results[st].error}

\* variant of WeightedConfidence: a strategy whose result has an 'error' key
\* gets an entry too
WeightedConfidence_with_failed(analysis_results) ==
    [st \in DOMAIN analysis_results |->
        QMul(analysis_results[st].confidence, StrategyWeight[st])]

\* weighted_confidence = confidence * weight, per strategy
WeightedConfidence(analysis_results) ==
    [st \in ValidSignals(analysis_results) |->
        QMul(analysis_results[st].confidence, StrategyWeight[st])]

\* sum(s['confidence'] for s in signals if s['action'] == action)
ActionWeight(analysis_results, action) ==
    SumOver({st \in ValidSignals(analysis_results) : analysis_results[st].action = action},
            WeightedConfidence(analysis_results))

\* variant of MajorityAction: buy also wins a tie with sell (>= for >)
MajorityAction_tie_to_buy(buy_weight, sell_weight, hold_weight) ==
    IF QGe(buy_weight, sell_weight) /\ QGt(buy_weight, hold_weight)
    THEN [action |-> "buy", confidence |-> buy_weight]
    ELSE IF QGt(sell_weight, buy_weight) /\ QGt(sell_weight, hold_weight)
    THEN [action |-> "sell", confidence |-> sell_weight]
    ELSE [action |-> "hold", confidence |-> hold_weight]

\* the if / elif / else that picks final_action and final_confidence
MajorityAction(buy_weight, sell_weight, hold_weight) ==
    IF QGt(buy_weight, sell_weight) /\ QGt(buy_weight, hold_weight)
    THEN [action |-> "buy", confidence |-> buy_weight]
    ELSE IF QGt(sell_weight, buy_weight) /\ QGt(sell_weight, hold_weight)
    THEN [action |-> "sell", confidence |-> sell_weight]
    ELSE [action |-> "hold", confidence |-> hold_weight]

\* _consolidate_signals(analysis_results, market_data): action, confidence and
\* strategy_contributions of the TradingSignal returned
consolidate_signals(analysis_results) ==
    IF ValidSignals(analysis_results) # {}
    THEN LET final == MajorityAction(ActionWeight(analysis_results, "buy"),
                                     ActionWeight(analysis_results, "sell"),
                                     ActionWeight(analysis_results, "hold"))
         IN  [action |-> final.action, confidence |-> final.confidence,
              strategy_contributions |-> WeightedConfidence(analysis_results)]
    ELSE [action |-> "hold", confidence |-> QZero,
          strategy_contributions |-> EmptyDict]

NoSignal == [action |-> "hold", confidence |-> QZero, strategy_contributions |-> EmptyDict]

\* datetime.now() of the runs checked: the ticks of the clock
MaxClock == 1

\* nothing returned yet
NoReturn == [signal |-> NoSignal, timestamp |-> 0]

\* no fusion call made yet, on the results given
FuseConstructed(analysis_results) ==
    /\ fuse_results = analysis_results
    /\ fuse_status = "none"
    /\ fused = NoSignal
    /\ fuse_timestamp = 0
    /\ fuse_first = NoReturn
    /\ fuse_now = 0

FuseIdle == FuseConstructed(EmptyDict)

\* _calculate_risk_score(analysis_results): np.mean of 1 - confidence over the
\* results without an 'error' key, 0.5 when there is none
calculate_risk_score(analysis_results) ==
    LET signals == ValidSignals(analysis_results)
        risk_factors == [st \in signals |-> QSub(QOne, analysis_results[st].confidence)]
    IN  IF signals # {}
        THEN QDiv(SumOver(signals, risk_factors), QInt(Cardinality(signals)))
        ELSE Q(5, 10)

\* no score has been computed
NotComputed == <<>>
NoScoreInputs == [kind |-> "none"]

ScoresConstructed(inputs) ==
    /\ score_inputs = inputs
    /\ scores = NotComputed

ScoresIdle == ScoresConstructed(NoScoreInputs)

\* Python's None for a price level
None == <<>>

\* the levels of one type, in list order
levels_of_type(levels, type) == SelectSeq(levels, LAMBDA level : level.type = type)

\* min(levels, key=lambda x: abs(x.price - current_price)): the first of the
\* nearest ones
closest_level(levels, current_price) ==
    LET dist(i) == QAbs(QSub(levels[i].price, current_price))
        best == CHOOSE i \in DOMAIN levels :
                    \A j \in DOMAIN levels : QLt(dist(i), dist(j)) \/ (dist(i) = dist(j) /\ i <= j)
    IN  levels[best]

\* _calculate_stop_take_profit(action, current_price, analysis_results, symbol),
\* levels being the 'levels' of the support_resistance result of the symbol ([]
\* when there is none)
calculate_stop_take_profit(action, current_price, levels) ==
    LET support_levels == levels_of_type(levels, "support")
        resistance_levels == levels_of_type(levels, "resistance")
        near_support == closest_level(support_levels, current_price).price
        near_resistance == closest_level(resistance_levels, current_price).price
        stop_loss ==
            IF action = "buy" /\ support_levels # <<>> THEN QMul(near_support, Q(995, 1000))
            ELSE IF action = "sell" /\ resistance_levels # <<>>
            THEN QMul(near_resistance, Q(1005, 1000))
            ELSE None
        take_profit ==
            IF action = "buy" /\ resistance_levels # <<>>
            THEN QMul(near_resistance, Q(995, 1000))
            ELSE IF action = "sell" /\ support_levels # <<>>
            THEN QMul(near_support, Q(1005, 1000))
            ELSE None
    IN  IF stop_loss = None \/ stop_loss = QZero
        THEN IF action = "buy"
             THEN [stop_loss |-> QMul(current_price, Q(98, 100)),
                   take_profit |-> QMul(current_price, Q(104, 100))]
             ELSE IF action = "sell"
             THEN [stop_loss |-> QMul(current_price, Q(102, 100)),
                   take_profit |-> QMul(current_price, Q(96, 100))]
             ELSE [stop_loss |-> stop_loss, take_profit |-> take_profit]
        ELSE [stop_loss |-> stop_loss, take_profit |-> take_profit]

StpNotReturned == [stop_loss |-> None, take_profit |-> None, returned |-> FALSE]
NoStpCall == [action |-> "hold", current_price |-> QOne, levels |-> <<>>]

StpConstructed(call) ==
    /\ stp_call = call
    /\ stp_result = StpNotReturned

StpIdle == StpConstructed(NoStpCall)

\* one _calculate_stop_take_profit call, as _consolidate_signals makes it for
\* the fused action
CalculateStopTakeProfit ==
    /\ stp_result = StpNotReturned
    /\ stp_call # NoStpCall
    /\ stp_result' = [returned |-> TRUE] @@
                     calculate_stop_take_profit(stp_call.action, stp_call.current_price,
                                                stp_call.levels)
    /\ UNCHANGED <<stp_call, riskVars, sizingVars, vtVars, fpVars, fuseVars, apVars, scVars,
                   dtVars, scoreVars>>

\* the clock read by datetime.now() moves on
ClockTick ==
    /\ fuse_now < MaxClock
    /\ fuse_now' = fuse_now + 1
    /\ UNCHANGED <<fuse_results, fuse_status, fused, fuse_timestamp, fuse_first>>
    /\ UNCHANGED notFuse

\* the engine fuses the results of one analysis round; a second call is
\* given the same results. The TradingSignal returned carries
\* timestamp=datetime.now()
ConsolidateSignals ==
    /\ fuse_status \in {"none", "done"}
    /\ fuse_status' = IF fuse_status = "none" THEN "done" ELSE "again"
    /\ fused' = consolidate_signals(fuse_results)
    /\ fuse_timestamp' = fuse_now
    /\ fuse_first' = IF fuse_status = "none"
                     THEN [signal |-> fused', timestamp |-> fuse_now]
                     ELSE fuse_first
    /\ UNCHANGED <<fuse_results, fuse_now>>
    /\ UNCHANGED notFuse

----------------------------------------------------------------------------
(* RiskManager: operations *)

\* set_risk_level(risk_level)
SetRiskLevel(l) ==
    /\ current_risk_level' = l
    /\ UNCHANGED <<current_metrics, stop_result, halt_reported>>
    /\ UNCHANGED notRisk

\* update_risk_metrics(positions, trades, current_balance): returns at once for
\* an empty trade list, raises ZeroDivisionError (nothing stored) when
\* current_balance * max_leverage = 0, and stores the new RiskMetrics otherwise
UpdateRiskMetrics(exposure, returns, current_balance) ==
    /\ current_metrics' =
          IF returns = <<>> \/ current_balance = 0 THEN current_metrics
          ELSE ComputeMetrics(exposure, returns, current_balance, current_risk_level)
    /\ UNCHANGED <<current_risk_level, stop_result, halt_reported>>
    /\ UNCHANGED notRisk

\* a caller asks should_emergency_stop() and keeps the answer
ShouldEmergencyStopCall ==
    LET stop == should_emergency_stop(current_metrics, current_risk_level)
    IN  /\ stop_result' = IF stop THEN "halt" ELSE "normal"
        /\ halt_reported' = (halt_reported \/ stop)
        /\ UNCHANGED <<current_risk_level, current_metrics>>
        /\ UNCHANGED notRisk

\* a caller computes the sizing of one candidate under the current profile
CalculatePositionSize ==
    /\ sz_status = "none"
    /\ IF calculate_position_size_raises(sz_opportunity, sz_balance, sz_volatility,
                                         sz_market, current_risk_level)
       THEN /\ sz_status' = "raised"
            /\ sizing' = NoSizing
       ELSE /\ sz_status' = "ok"
            /\ sizing' = calculate_position_size(sz_opportunity, sz_balance, sz_volatility,
                                                 sz_market, current_risk_level)
    /\ UNCHANGED <<sz_opportunity, sz_balance, sz_volatility, sz_market>>
    /\ UNCHANGED notSizing

\* a QuickOpportunity as far as sizing and validation read it; stop_loss None
\* is <<0, 1>>, which is what the code's (stop_loss or 0) makes of it
MakeOpportunity(confidence, risk_reward_ratio, volume_24h, volatility_score) ==
    [confidence |-> confidence, risk_reward_ratio |-> risk_reward_ratio,
     volume_24h |-> volume_24h, entry_price |-> QInt(2), stop_loss |-> QZero,
     technical_score |-> confidence,
     volume_score |-> QMin(Q(volume_24h, 10000000), QOne),
     volatility_score |-> volatility_score]

\* no sizing call in progress
SizingIdle ==
    /\ sz_opportunity = MakeOpportunity(QZero, QOne, 0, QZero)
    /\ sz_balance = QZero
    /\ sz_volatility = QZero
    /\ sz_market = EmptyDict
    /\ sz_status = "none"
    /\ sizing = NoSizing

\* RiskManager.__init__ followed by create_risk_manager's set_risk_level
RiskConstructed ==
    /\ current_risk_level \in RiskLevel
    /\ current_metrics = InitialMetrics
    /\ stop_result = "none"
    /\ halt_reported = FALSE

\* RiskManager.__init__ alone
RiskIdle ==
    /\ current_risk_level = "conservative"
    /\ current_metrics = InitialMetrics
    /\ stop_result = "none"
    /\ halt_reported = FALSE

----------------------------------------------------------------------------
(* AutopilotEngine: lifecycle, main loop, trade execution *)

\* AutopilotConfig.min_confidence_threshold and .emergency_stop_loss
min_confidence_threshold == Q(70, 100)
config_emergency_stop_loss == Q(5, 100)

\* AutopilotMetrics.current_drawdown: built as 0.0 and never assigned
metrics_current_drawdown == QZero

\* AutopilotConfig.max_daily_trades of the engines checked (the default is 10)
MaxDailyTrades == 2
\* records beyond the daily limit that a run may add before it is cut off
MaxOverrun == 1
\* _main_loop tasks a run may create, calendar days a run may see
MaxLoops == 2
MaxDay == 1

Loops == 1..MaxLoops
Days == 0..MaxDay

AutopilotConfigs ==
    [trading_enabled : BOOLEAN, dry_run : BOOLEAN, ai_ollama_enabled : BOOLEAN]

\* AutopilotEngine.__init__: STOPPED, not running, no exchange manager, no AI,
\* empty trade_history
AutopilotConstructed(config) ==
    /\ ap_config = config
    /\ ap_status = "stopped"
    /\ ap_is_running = FALSE
    /\ ap_exchange = FALSE
    /\ ap_ollama = FALSE
    /\ ap_init = "idle"
    /\ ap_loop = [t \in Loops |-> "none"]
    /\ ap_trades = [d \in Days |-> 0]
    /\ ap_day = 0
    /\ ap_order_placed = FALSE
    /\ ap_close_requested = FALSE

\* an engine nobody uses: the default AutopilotConfig
AutopilotIdle ==
    AutopilotConstructed([trading_enabled |-> FALSE, dry_run |-> TRUE,
                          ai_ollama_enabled |-> TRUE])

\* the analysis rounds a cycle may see: every strategy buys at confidence 1,
\* every strategy sells at 0.65, every strategy fails, and the mixed round
\* {sr 0.6 buy, ict 0.25 buy, fib 0.15 sell}
CycleAnalyses ==
    {[st \in Strategies |-> [error |-> FALSE, action |-> "buy", confidence |-> QOne]],
     [st \in Strategies |-> [error |-> FALSE, action |-> "sell", confidence |-> Q(65, 100)]],
     [st \in Strategies |-> ErrorResult],
     [st \in {"support_resistance", "ict_techniques", "fibonacci"} |->
        CASE st = "support_resistance" -> [error |-> FALSE, action |-> "buy", confidence |-> Q(60, 100)]
          [] st = "ict_techniques" -> [error |-> FALSE, action |-> "buy", confidence |-> Q(25, 100)]
          [] st = "fibonacci" -> [error |-> FALSE, action |-> "sell", confidence |-> Q(15, 100)]]}

\* what _get_ai_validation returns: {} on a failure, else the recommendation
\* and the risk assessment of the model
AiValidations ==
    {[empty |-> TRUE, ai_recommendation |-> "hold", ai_risk_assessment |-> "medio"]} \cup
    {[empty |-> FALSE, ai_recommendation |-> r, ai_risk_assessment |-> k] :
        r \in {"buy", "sell", "hold"}, k \in {"alto", "medio", "bajo"}}

\* variant of adjust_signal_with_ai: the raised confidences are not capped by
\* min(1.0, ...)
adjust_signal_with_ai_uncapped(signal, ai_validation) ==
    IF ai_validation.empty THEN signal
    ELSE LET c1 == IF ai_validation.ai_recommendation = signal.action
                   THEN QMul(signal.confidence, Q(11, 10))
                   ELSE IF ai_validation.ai_recommendation # "hold"
                   THEN QMul(signal.confidence, Q(8, 10))
                   ELSE signal.confidence
             c2 == IF ai_validation.ai_risk_assessment = "alto" THEN QMul(c1, Q(9, 10))
                   ELSE IF ai_validation.ai_risk_assessment = "bajo"
                   THEN QMul(c1, Q(105, 100))
                   ELSE c1
         IN  [signal EXCEPT !.confidence = c2]

\* _adjust_signal_with_ai(signal, ai_validation): the confidence it leaves
adjust_signal_with_ai(signal, ai_validation) ==
    IF ai_validation.empty THEN signal
    ELSE LET c1 == IF ai_validation.ai_recommendation = signal.action
                   THEN QMin(QOne, QMul(signal.confidence, Q(11, 10)))
                   ELSE IF ai_validation.ai_recommendation # "hold"
                   THEN QMul(signal.confidence, Q(8, 10))
                   ELSE signal.confidence
             c2 == IF ai_validation.ai_risk_assessment = "alto" THEN QMul(c1, Q(9, 10))
                   ELSE IF ai_validation.ai_risk_assessment = "bajo"
                   THEN QMin(QOne, QMul(c1, Q(105, 100)))
                   ELSE c1
         IN  [signal EXCEPT !.confidence = c2]

\* the signal _analyze_and_trade acts on: fused, then adjusted by the AI when
\* there is one and the fused confidence is above 0.6
cycle_signal(analysis_results, ai_validation, ollama) ==
    LET consolidated == consolidate_signals(analysis_results)
    IN  IF ollama /\ QGt(consolidated.confidence, Q(6, 10))
        THEN adjust_signal_with_ai(consolidated, ai_validation)
        ELSE consolidated

\* every signal a cycle may act on, with an AI and without one
CycleSignalsWithAI ==
    {cycle_signal(analysis_results, ai_validation, TRUE) :
        analysis_results \in CycleAnalyses, ai_validation \in AiValidations}
CycleSignalsWithoutAI ==
    {cycle_signal(analysis_results, ai_validation, FALSE) :
        analysis_results \in CycleAnalyses, ai_validation \in AiValidations}

\* the condition under which _analyze_and_trade calls _execute_trade
trade_criteria(signal, config) ==
    /\ QGe(signal.confidence, min_confidence_threshold)
    /\ signal.action # "hold"
    /\ config.trading_enabled
    /\ ~config.dry_run

\* the status _check_emergency_conditions leaves: emergency_stop() on the
\* drawdown test, then pause() on the daily count, one after the other
status_after_check(status, today_trades) ==
    LET s1 == IF QGt(metrics_current_drawdown, config_emergency_stop_loss)
              THEN "emergency_stop" ELSE status
    IN  IF today_trades >= MaxDailyTrades THEN "paused" ELSE s1

running_after_check(is_running) ==
    IF QGt(metrics_current_drawdown, config_emergency_stop_loss) THEN FALSE ELSE is_running

\* initialize(exchange_configs), up to its first await: STARTING, the exchange
\* manager is built, connect_all() is awaited
InitializeBegin ==
    /\ ap_init = "idle"
    /\ ap_init' = "connecting"
    /\ ap_status' = "starting"
    /\ ap_exchange' = TRUE
    /\ UNCHANGED <<ap_config, ap_is_running, ap_ollama, ap_loop, ap_trades, ap_day,
                   ap_order_placed, ap_close_requested>>
    /\ UNCHANGED notAutopilot

\* initialize, from connect_all() to its end: RUNNING and is_running on
\* success (no loop task is created), ERROR when an await raised
InitializeEnd ==
    /\ ap_init = "connecting"
    /\ ap_init' = "idle"
    /\ \E outcome \in {"ok", "connect_failed", "ai_failed"} :
          /\ outcome = "ai_failed" => ap_config.ai_ollama_enabled
          /\ ap_ollama' = IF outcome # "connect_failed" /\ ap_config.ai_ollama_enabled
                          THEN TRUE ELSE ap_ollama
          /\ ap_status' = IF outcome = "ok" THEN "running" ELSE "error"
          /\ ap_is_running' = IF outcome = "ok" THEN TRUE ELSE ap_is_running
    /\ UNCHANGED <<ap_config, ap_exchange, ap_loop, ap_trades, ap_day,
                   ap_order_placed, ap_close_requested>>
    /\ UNCHANGED notAutopilot

\* start(): nothing when RUNNING or ERROR, else is_running, RUNNING and a new
\* _main_loop task
Start ==
    /\ \E t \in Loops : ap_loop[t] = "none"
    /\ IF ap_status \in {"running", "error"}
       THEN UNCHANGED <<ap_is_running, ap_status, ap_loop>>
       ELSE /\ ap_is_running' = TRUE
            /\ ap_status' = "running"
            /\ LET t == CHOOSE u \in Loops :
                            ap_loop[u] = "none" /\ \A v \in Loops : ap_loop[v] = "none" => u <= v
               IN  ap_loop' = [ap_loop EXCEPT ![t] = "sleeping"]
    /\ UNCHANGED <<ap_config, ap_exchange, ap_ollama, ap_init, ap_trades, ap_day,
                   ap_order_placed, ap_close_requested>>
    /\ UNCHANGED notAutopilot

\* stop()
Stop ==
    /\ ap_is_running' = FALSE
    /\ ap_status' = "stopped"
    /\ UNCHANGED <<ap_config, ap_exchange, ap_ollama, ap_init, ap_loop, ap_trades, ap_day,
                   ap_order_placed, ap_close_requested>>
    /\ UNCHANGED notAutopilot

\* pause()
Pause ==
    /\ ap_status' = "paused"
    /\ UNCHANGED <<ap_config, ap_is_running, ap_exchange, ap_ollama, ap_init, ap_loop,
                   ap_trades, ap_day, ap_order_placed, ap_close_requested>>
    /\ UNCHANGED notAutopilot

\* resume()
Resume ==
    /\ ap_status' = "running"
    /\ UNCHANGED <<ap_config, ap_is_running, ap_exchange, ap_ollama, ap_init, ap_loop,
                   ap_trades, ap_day, ap_order_placed, ap_close_requested>>
    /\ UNCHANGED notAutopilot

\* emergency_stop(): EMERGENCY_STOP, not running, and _close_all_positions asks
\* the exchanges for the balances when trading is enabled
EmergencyStop ==
    /\ ap_status' = "emergency_stop"
    /\ ap_is_running' = FALSE
    /\ ap_close_requested' = (ap_close_requested \/ (ap_exchange /\ ap_config.trading_enabled))
    /\ UNCHANGED <<ap_config, ap_exchange, ap_ollama, ap_init, ap_loop, ap_trades, ap_day,
                   ap_order_placed>>
    /\ UNCHANGED notAutopilot

\* _main_loop, from the end of a sleep (or the creation of the task) to the
\* next await: the while test, the status test, the entry into
\* _analyze_and_trade, whose _get_market_data returns {} at once without an
\* exchange manager
LoopIterate(t) ==
    /\ ap_loop[t] = "sleeping"
    /\ ap_loop' = [ap_loop EXCEPT ![t] =
                      IF ~ap_is_running THEN "done"
                      ELSE IF ap_status = "running" /\ ap_exchange THEN "analyzing"
                      ELSE "sleeping"]
    /\ UNCHANGED <<ap_config, ap_status, ap_is_running, ap_exchange, ap_ollama, ap_init,
                   ap_trades, ap_day, ap_order_placed, ap_close_requested>>
    /\ UNCHANGED notAutopilot

\* _analyze_and_trade, from the market data to the call of _execute_trade or,
\* without a trade, to the end of the cycle
LoopAnalyze(t) ==
    /\ ap_loop[t] = "analyzing"
    /\ \E data \in {"empty", "raised", "ok"},
          signal \in (IF ap_ollama THEN CycleSignalsWithAI ELSE CycleSignalsWithoutAI) :
          IF data # "ok"
          THEN /\ ap_loop' = [ap_loop EXCEPT ![t] = "sleeping"]
               /\ UNCHANGED <<ap_status, ap_is_running, ap_close_requested>>
          ELSE IF trade_criteria(signal, ap_config)
          THEN /\ ap_loop' = [ap_loop EXCEPT ![t] = "executing"]
               /\ UNCHANGED <<ap_status, ap_is_running, ap_close_requested>>
          ELSE /\ ap_loop' = [ap_loop EXCEPT ![t] = "sleeping"]
               /\ ap_status' = status_after_check(ap_status, ap_trades[ap_day])
               /\ ap_is_running' = running_after_check(ap_is_running)
               /\ UNCHANGED ap_close_requested
    /\ UNCHANGED <<ap_config, ap_exchange, ap_ollama, ap_init, ap_trades, ap_day,
                   ap_order_placed>>
    /\ UNCHANGED notAutopilot

\* _execute_trade from its awaits on, then _update_metrics and
\* _check_emergency_conditions: no exchange found, the order failed, or the
\* execution is appended to trade_history with today's timestamp
LoopExecute(t) ==
    /\ ap_loop[t] = "executing"
    /\ \E outcome \in {"no_exchange", "order_failed", "filled"} :
          /\ outcome = "filled" => ap_trades[ap_day] < MaxDailyTrades + MaxOverrun
          /\ ap_order_placed' = (ap_order_placed \/ outcome # "no_exchange")
          /\ ap_trades' = IF outcome = "filled"
                          THEN [ap_trades EXCEPT ![ap_day] = @ + 1] ELSE ap_trades
          /\ ap_status' = status_after_check(ap_status, ap_trades'[ap_day])
          /\ ap_is_running' = running_after_check(ap_is_running)
    /\ ap_loop' = [ap_loop EXCEPT ![t] = "sleeping"]
    /\ UNCHANGED <<ap_config, ap_exchange, ap_ollama, ap_init, ap_day, ap_close_requested>>
    /\ UNCHANGED notAutopilot

\* midnight passes
NewDay ==
    /\ ap_day < MaxDay
    /\ ap_day' = ap_day + 1
    /\ UNCHANGED <<ap_config, ap_status, ap_is_running, ap_exchange, ap_ollama, ap_init,
                   ap_loop, ap_trades, ap_order_placed, ap_close_requested>>
    /\ UNCHANGED notAutopilot

----------------------------------------------------------------------------
(* PairScanner: opportunities *)

\* ScanConfig.min_confidence_threshold
scan_min_confidence_threshold == Q(6, 10)

\* pairs the exchange may list, batches' size and the worker bound of the
\* scanners checked: scan_all_opportunities gathers batch_size = 50 tasks at a
\* time and ScanConfig.parallel_workers is 8 by default; the model keeps
\* parallel_workers < batch_size
MaxPairs == 2
BatchSize == 3
ParallelWorkers == 2
\* scans a run may begin
MaxScans == 2

\* ScanConfig.enabled_markets of the scanners checked; one timeframe enabled
MarketTypes == <<"spot", "futures">>

\* PairInfo of the p-th pair: a liquid pair and a thin one, in turn
PairInfo(p) ==
    [symbol |-> p,
     volume_24h |-> IF p % 2 = 1 THEN 20000000 ELSE 2000000,
     price_change_24h |-> IF p % 2 = 1 THEN Q(5, 100) ELSE Q(-2, 100)]

\* the scan_tasks list: for pair, for timeframe, for market_type
scan_tasks(pairs) ==
    [i \in 1..(pairs * Len(MarketTypes)) |->
        [pair |-> ((i - 1) \div Len(MarketTypes)) + 1,
         market_type |-> MarketTypes[((i - 1) % Len(MarketTypes)) + 1]]]

\* cache_key: exchange, symbol and timeframe, so the market type plays no part
cache_key(task) == task.pair

\* what an _analyze_* coroutine hands to the scan task: an exception object
\* from gather, the dict of its except branch, or a result
AnalysisException == [kind |-> "exception"]
AnalysisError == [kind |-> "error", confidence |-> QZero]
AnalysisResult(strategy, action, confidence, levels) ==
    [kind |-> "result", strategy |-> strategy, action |-> action, confidence |-> confidence,
     levels |-> levels]

\* signals['stop_loss'] and signals['take_profit'] of a fibonacci result, as
\* fractions of the price; NoLevels when the signals carry none
NoLevels == [given |-> FALSE, stop_loss |-> QZero, take_profit |-> QZero]
Levels(stop_loss, take_profit) ==
    [given |-> TRUE, stop_loss |-> stop_loss, take_profit |-> take_profit]

\* the close of the last candle of every frame
current_price == QInt(2)

\* _calculate_levels(action, current_price, analysis, df)
calculate_levels(action, price, analysis) ==
    LET fib == analysis.strategy = "fibonacci" /\ analysis.levels.given
        stop_loss == IF fib THEN QMul(price, analysis.levels.stop_loss) ELSE QZero
        take_profit == IF fib THEN QMul(price, analysis.levels.take_profit) ELSE QZero
    IN  IF stop_loss = QZero
        THEN IF action = "buy"
             THEN [stop_loss |-> QMul(price, Q(98, 100)), take_profit |-> QMul(price, Q(104, 100))]
             ELSE IF action = "sell"
             THEN [stop_loss |-> QMul(price, Q(102, 100)), take_profit |-> QMul(price, Q(96, 100))]
             ELSE [stop_loss |-> stop_loss, take_profit |-> take_profit]
        ELSE [stop_loss |-> stop_loss, take_profit |-> take_profit]

\* risk_reward_ratio as _create_opportunity_from_analysis computes it
risk_reward(action, price, levels) ==
    IF levels.stop_loss # QZero /\ levels.take_profit # QZero
    THEN LET risk == IF action = "buy" THEN QSub(price, levels.stop_loss)
                     ELSE QSub(levels.stop_loss, price)
             reward == IF action = "buy" THEN QSub(levels.take_profit, price)
                       ELSE QSub(price, levels.take_profit)
         IN  IF QGt(risk, QZero) THEN QDiv(reward, risk) ELSE QOne
    ELSE QOne

\* _create_opportunity_from_analysis, for an analysis it does not return None on
create_opportunity_from_analysis(task, index, analysis) ==
    LET pair == PairInfo(task.pair)
        technical_score == analysis.confidence
        volume_score == QMin(Q(pair.volume_24h, 10000000), QOne)
        volatility_score == QMin(QDiv(QAbs(pair.price_change_24h), Q(1, 10)), QOne)
        levels == calculate_levels(analysis.action, current_price, analysis)
    IN  [task |-> index, strategy |-> analysis.strategy, signal |-> analysis.action,
         confidence |-> analysis.confidence, volume_24h |-> pair.volume_24h,
         entry_price |-> current_price,
         stop_loss |-> levels.stop_loss, take_profit |-> levels.take_profit,
         risk_reward_ratio |-> risk_reward(analysis.action, current_price, levels),
         technical_score |-> technical_score, volume_score |-> volume_score,
         volatility_score |-> volatility_score,
         overall_score |-> QAdd(QAdd(QMul(technical_score, Q(5, 10)),
                                     QMul(volume_score, Q(3, 10))),
                                QMul(volatility_score, Q(2, 10)))]

\* the loop of _scan_pair_opportunities over analysis_results: exception
\* objects are skipped, a result below the threshold or with action hold
\* gives nothing, and when handling the raises_at-th result raises, the
\* except branch returns what was appended before
RECURSIVE scan_pair_results(_, _, _, _, _)
scan_pair_results(task, index, analysis_results, raises_at, k) ==
    IF k > Len(analysis_results) \/ k = raises_at THEN <<>>
    ELSE LET result == analysis_results[k]
             rest == scan_pair_results(task, index, analysis_results, raises_at, k + 1)
         IN  IF result.kind = "result"
                /\ QGe(result.confidence, scan_min_confidence_threshold)
                /\ result.action # "hold"
             THEN <<create_opportunity_from_analysis(task, index, result)>> \o rest
             ELSE rest

\* variant of passes_filter: the risk/reward ratio is not looked at
passes_filter_without_risk_reward(opp) ==
    /\ ~QLt(opp.confidence, scan_min_confidence_threshold)
    /\ ~QLt(opp.overall_score, Q(5, 10))

\* _filter_opportunities
passes_filter(opp) ==
    /\ ~QLt(opp.confidence, scan_min_confidence_threshold)
    /\ ~QLt(opp.overall_score, Q(5, 10))
    /\ ~QLt(opp.risk_reward_ratio, QOne)

filter_opportunities(opportunities) == SelectSeq(opportunities, passes_filter)

\* sorted(..., key=lambda x: x.overall_score, reverse=True): stable
RECURSIVE sorted_by_score(_)
sorted_by_score(opportunities) ==
    IF opportunities = <<>> THEN <<>>
    ELSE LET best == CHOOSE i \in 1..Len(opportunities) :
                        \A j \in 1..Len(opportunities) :
                            \/ QGt(opportunities[i].overall_score, opportunities[j].overall_score)
                            \/ /\ opportunities[i].overall_score = opportunities[j].overall_score
                               /\ i <= j
         IN  <<opportunities[best]>> \o
             sorted_by_score([n \in 1..(Len(opportunities) - 1) |->
                                IF n < best THEN opportunities[n] ELSE opportunities[n + 1]])

----------------------------------------------------------------------------
(* PairScanner: scan_all_opportunities and its scan tasks *)

NoFrame == [kind |-> "none", scan |-> 0, by |-> 0]

\* the scan tasks of the scan in progress
Tasks == 1..(pairs_cache * Len(MarketTypes))

\* batch = scan_tasks[i:i + batch_size]
Batch == {i \in Tasks : sc_batch < i /\ i <= sc_batch + BatchSize}

\* the scan tasks started and not finished
InFlight == {i \in Tasks : sc_item[i] \in {"fetching", "analyzing"}}

\* what gather hands to one scan task and where handling it raises, if it does
ItemOutcomes ==
    {[analysis_results |-> <<AnalysisResult("support_resistance", "buy", Q(9, 10), NoLevels)>>,
      raises_at |-> 0],
     [analysis_results |-> <<AnalysisResult("support_resistance", "sell", Q(6, 10), NoLevels)>>,
      raises_at |-> 0],
     [analysis_results |-> <<AnalysisResult("fibonacci", "sell", Q(6, 10),
                                            Levels(Q(104, 100), Q(98, 100)))>>,
      raises_at |-> 0],
     [analysis_results |-> <<AnalysisException, AnalysisError>>, raises_at |-> 0],
     [analysis_results |-> <<AnalysisResult("support_resistance", "buy", Q(9, 10), NoLevels),
                             AnalysisError>>,
      raises_at |-> 2],
     [analysis_results |-> <<AnalysisError>>, raises_at |-> 1]}

\* PairScanner.__init__, then initialize() loading `pairs` pairs
ScannerConstructed(pairs) ==
    /\ pairs_cache = pairs
    /\ market_data_cache = [k \in 1..pairs |-> NoFrame]
    /\ opportunities_cache = <<>>
    /\ sc_scan = "idle"
    /\ sc_scans = 0
    /\ sc_batch = 0
    /\ sc_item = [i \in 1..(pairs * Len(MarketTypes)) |-> "pending"]
    /\ sc_data = [i \in 1..(pairs * Len(MarketTypes)) |-> NoFrame]
    /\ sc_result = [i \in 1..(pairs * Len(MarketTypes)) |-> <<>>]
    /\ sc_raised = {}
    /\ all_opportunities = <<>>
    /\ sc_returned = <<>>

\* a scanner nobody uses
ScannerIdle == ScannerConstructed(0)

\* the end of scan_all_opportunities: filter, sort, cache, return
ScanFinish(opportunities) ==
    /\ sc_returned' = sorted_by_score(filter_opportunities(opportunities))
    /\ opportunities_cache' = sc_returned'
    /\ sc_scan' = "returned"

\* scan_all_opportunities up to the first gather: the coroutines are built
ScanBegin ==
    /\ sc_scan \in {"idle", "returned"}
    /\ sc_scans < MaxScans
    /\ sc_scans' = sc_scans + 1
    /\ sc_batch' = 0
    /\ sc_item' = [i \in Tasks |-> "pending"]
    /\ sc_data' = [i \in Tasks |-> NoFrame]
    /\ sc_result' = [i \in Tasks |-> <<>>]
    /\ sc_raised' = {}
    /\ all_opportunities' = <<>>
    /\ IF Tasks = {}
       THEN ScanFinish(<<>>)
       ELSE /\ sc_scan' = "gathering"
            /\ UNCHANGED <<sc_returned, opportunities_cache>>
    /\ UNCHANGED <<pairs_cache, market_data_cache>>
    /\ UNCHANGED notScanner

\* _scan_pair_opportunities once it holds `frame`: a frame whose len() raises
\* ends in the except branch, a short frame returns [], a full one goes on to
\* the gather of the six analyses
ItemWithFrame(i, frame) ==
    /\ sc_data' = [sc_data EXCEPT ![i] = frame]
    /\ sc_item' = [sc_item EXCEPT ![i] = IF frame.kind = "full" THEN "analyzing" ELSE "done"]
    /\ sc_raised' = IF frame.kind = "malformed" THEN sc_raised \cup {i} ELSE sc_raised
    /\ UNCHANGED sc_result

\* a scan task of the batch starts: a cached frame is used at once, else the
\* exchange is asked
ItemStart(i) ==
    /\ sc_scan = "gathering"
    /\ i \in Batch
    /\ sc_item[i] = "pending"
    /\ IF market_data_cache[cache_key(scan_tasks(pairs_cache)[i])] # NoFrame
       THEN ItemWithFrame(i, market_data_cache[cache_key(scan_tasks(pairs_cache)[i])])
       ELSE /\ sc_item' = [sc_item EXCEPT ![i] = "fetching"]
            /\ UNCHANGED <<sc_data, sc_raised, sc_result>>
    /\ UNCHANGED <<pairs_cache, market_data_cache, opportunities_cache, sc_scan, sc_scans,
                   sc_batch, all_opportunities, sc_returned>>
    /\ UNCHANGED notScanner

\* the exchange answers: no data for this exchange or an exception (both give
\* None and the task returns []), or a frame, which is cached under the key
ItemFetched(i) ==
    /\ sc_item[i] = "fetching"
    /\ \E outcome \in {"none", "raised", "full", "short", "malformed"} :
          IF outcome \in {"none", "raised"}
          THEN /\ sc_item' = [sc_item EXCEPT ![i] = "done"]
               /\ sc_raised' = IF outcome = "raised" THEN sc_raised \cup {i} ELSE sc_raised
               /\ UNCHANGED <<sc_data, sc_result, market_data_cache>>
          ELSE LET frame == [kind |-> outcome, scan |-> sc_scans, by |-> i]
               IN  /\ market_data_cache' =
                        [market_data_cache EXCEPT ![cache_key(scan_tasks(pairs_cache)[i])] = frame]
                   /\ ItemWithFrame(i, frame)
    /\ UNCHANGED <<pairs_cache, opportunities_cache, sc_scan, sc_scans, sc_batch,
                   all_opportunities, sc_returned>>
    /\ UNCHANGED notScanner

\* the six analyses are back: the task builds its opportunities and returns
ItemAnalyzed(i) ==
    /\ sc_item[i] = "analyzing"
    /\ \E outcome \in ItemOutcomes :
          /\ sc_result' = [sc_result EXCEPT ![i] =
                              scan_pair_results(scan_tasks(pairs_cache)[i], i,
                                                outcome.analysis_results, outcome.raises_at, 1)]
          /\ sc_raised' = IF outcome.raises_at > 0 THEN sc_raised \cup {i} ELSE sc_raised
    /\ sc_item' = [sc_item EXCEPT ![i] = "done"]
    /\ UNCHANGED <<pairs_cache, market_data_cache, opportunities_cache, sc_scan, sc_scans,
                   sc_batch, sc_data, all_opportunities, sc_returned>>
    /\ UNCHANGED notScanner

\* variant of extend: the result replaces what was collected
extend_replacing(opportunities, result) == IF result # <<>> THEN result ELSE opportunities

\* elif result: all_opportunities.extend(result)
extend(opportunities, result) == IF result # <<>> THEN opportunities \o result ELSE opportunities

\* the loop over batch_results, from the i-th task of the batch on
RECURSIVE collect_batch(_, _, _, _)
collect_batch(opportunities, results, i, last) ==
    IF i > last THEN opportunities
    ELSE collect_batch(extend(opportunities, results[i]), results, i + 1, last)

\* the gather of the batch is over: its results are collected, then sleep(0.1)
BatchCollect ==
    /\ sc_scan = "gathering"
    /\ \A i \in Batch : sc_item[i] = "done"
    /\ all_opportunities' =
          collect_batch(all_opportunities, sc_result, sc_batch + 1,
                        IF sc_batch + BatchSize <= pairs_cache * Len(MarketTypes)
                        THEN sc_batch + BatchSize ELSE pairs_cache * Len(MarketTypes))
    /\ sc_scan' = "pausing"
    /\ UNCHANGED <<pairs_cache, market_data_cache, opportunities_cache, sc_scans, sc_batch,
                   sc_item, sc_data, sc_result, sc_raised, sc_returned>>
    /\ UNCHANGED notScanner

\* the pause is over: the next batch is gathered, or the scan ends
AfterPause ==
    /\ sc_scan = "pausing"
    /\ sc_batch' = sc_batch + BatchSize
    /\ IF sc_batch + BatchSize < pairs_cache * Len(MarketTypes)
       THEN /\ sc_scan' = "gathering"
            /\ UNCHANGED <<sc_returned, opportunities_cache>>
       ELSE ScanFinish(all_opportunities)
    /\ UNCHANGED <<pairs_cache, market_data_cache, sc_scans, sc_item, sc_data, sc_result,
                   sc_raised, all_opportunities>>
    /\ UNCHANGED notScanner

----------------------------------------------------------------------------
(* AutoOpportunityDetector: scoring and ranking *)

\* AutoDetectorConfig.min_execution_score
min_execution_score == Q(7, 10)

\* current_balance = 10000.0 in _enhance_opportunities
simulated_balance == QInt(10000)

\* what _analyze_news_for_opportunity and _analyze_with_ai return; empty is {}
NoNews == [empty |-> TRUE, score |-> QZero, impact_score |-> QZero, relevance |-> QZero]
NoAi == [empty |-> TRUE, recommendation |-> "hold", confidence |-> QZero]

\* _calculate_priority(opportunity, news_sentiment, ai_analysis)
calculate_priority(opportunity, news_sentiment, ai_analysis) ==
    LET score == QAdd(QAdd(QMul(opportunity.confidence, Q(4, 10)),
                           IF news_sentiment.empty THEN QZero
                           ELSE QMul(QAbs(news_sentiment.score), Q(3, 10))),
                      IF ai_analysis.empty THEN QZero
                      ELSE QMul(ai_analysis.confidence, Q(3, 10)))
    IN  IF QGe(score, Q(9, 10)) THEN "critical"
        ELSE IF QGe(score, Q(75, 100)) THEN "high"
        ELSE IF QGe(score, Q(6, 10)) THEN "medium"
        ELSE "low"

\* variant of calculate_execution_score: nothing is added when there is no AI
\* analysis
calculate_execution_score_without_neutral(opportunity, news_sentiment, ai_analysis) ==
    LET technical_score ==
            QDiv(QAdd(QAdd(QAdd(opportunity.confidence, opportunity.technical_score),
                           opportunity.volume_score), opportunity.volatility_score), QInt(4))
        news_part ==
            IF news_sentiment.empty THEN QMul(Q(5, 10), Q(3, 10))
            ELSE QMul(QDiv(QAdd(news_sentiment.impact_score, news_sentiment.relevance),
                           QInt(2)), Q(3, 10))
        ai_factor ==
            IF ai_analysis.recommendation \in {"buy", "sell"}
               /\ opportunity.signal \in {"buy", "sell"}
            THEN IF ai_analysis.recommendation = opportunity.signal
                 THEN QMul(ai_analysis.confidence, Q(12, 10))
                 ELSE QMul(ai_analysis.confidence, Q(5, 10))
            ELSE QMul(ai_analysis.confidence, Q(8, 10))
        ai_part ==
            IF ai_analysis.empty THEN QZero
            ELSE QMul(QMin(ai_factor, QOne), Q(3, 10))
    IN  QMin(QAdd(QAdd(QMul(technical_score, Q(4, 10)), news_part), ai_part), QOne)

\* _calculate_execution_score(opportunity, news_sentiment, ai_analysis)
calculate_execution_score(opportunity, news_sentiment, ai_analysis) ==
    LET technical_score ==
            QDiv(QAdd(QAdd(QAdd(opportunity.confidence, opportunity.technical_score),
                           opportunity.volume_score), opportunity.volatility_score), QInt(4))
        news_part ==
            IF news_sentiment.empty THEN QMul(Q(5, 10), Q(3, 10))
            ELSE QMul(QDiv(QAdd(news_sentiment.impact_score, news_sentiment.relevance),
                           QInt(2)), Q(3, 10))
        ai_factor ==
            IF ai_analysis.recommendation \in {"buy", "sell"}
               /\ opportunity.signal \in {"buy", "sell"}
            THEN IF ai_analysis.recommendation = opportunity.signal
                 THEN QMul(ai_analysis.confidence, Q(12, 10))
                 ELSE QMul(ai_analysis.confidence, Q(5, 10))
            ELSE QMul(ai_analysis.confidence, Q(8, 10))
        ai_part ==
            IF ai_analysis.empty THEN QMul(Q(5, 10), Q(3, 10))
            ELSE QMul(QMin(ai_factor, QOne), Q(3, 10))
    IN  QMin(QAdd(QAdd(QMul(technical_score, Q(4, 10)), news_part), ai_part), QOne)

\* priority_order
priority_order(priority) ==
    CASE priority = "critical" -> 4
      [] priority = "high" -> 3
      [] priority = "medium" -> 2
      [] priority = "low" -> 1

\* variant of sort_key_greater: the execution_score alone
sort_key_greater_by_score(a, b) == QGt(a.execution_score, b.execution_score)

\* key(a) > key(b) for key = (priority_order[x.priority], x.execution_score)
sort_key_greater(a, b) ==
    \/ priority_order(a.priority) > priority_order(b.priority)
    \/ /\ priority_order(a.priority) = priority_order(b.priority)
       /\ QGt(a.execution_score, b.execution_score)

\* list.sort(key=(priority_order, execution_score), reverse=True): stable, the
\* elements of equal keys keep their order
RECURSIVE sorted_by_priority(_)
sorted_by_priority(opportunities) ==
    IF opportunities = <<>> THEN <<>>
    ELSE LET Before(a, b) == sort_key_greater(a, b)
             first == CHOOSE i \in 1..Len(opportunities) :
                        \A j \in 1..Len(opportunities) :
                            \/ Before(opportunities[i], opportunities[j])
                            \/ ~Before(opportunities[j], opportunities[i]) /\ i <= j
         IN  <<opportunities[first]>> \o
             sorted_by_priority([n \in 1..(Len(opportunities) - 1) |->
                                   IF n < first THEN opportunities[n] ELSE opportunities[n + 1]])

\* _filter_and_prioritize(opportunities)
filter_and_prioritize(opportunities) ==
    sorted_by_priority(SelectSeq(opportunities,
                                 LAMBDA opp : QGe(opp.execution_score, min_execution_score)))

NotRanked == <<[arrival |-> 0]>>

\* a _filter_and_prioritize call about to be made on this list
RankConstructed(opportunities) ==
    /\ fp_opportunities = opportunities
    /\ fp_returned = NotRanked

RankIdle == RankConstructed(<<>>)

\* _filter_and_prioritize(opportunities) returns
FilterAndPrioritize ==
    /\ fp_returned = NotRanked
    /\ fp_returned' = filter_and_prioritize(fp_opportunities)
    /\ UNCHANGED fp_opportunities
    /\ UNCHANGED notRank

----------------------------------------------------------------------------
(* AutoOpportunityDetector: lifecycle, detection loop, enhancement *)

\* _detection_loop tasks a run may create, positions a run may open
MaxDetLoops == 2
MaxPositions == 1

\* AutoDetectorConfig.max_opportunities_per_scan
max_opportunities_per_scan == 50

DetLoops == 1..MaxDetLoops

\* the levels the runs checked move between
DetectorLevels == {"conservative", "turbo"}

\* the configurations checked: the default level (set_risk_level moves it
\* later), news and AI analysis both enabled (the default) or both disabled
DetectorConfigs ==
    {[risk_level |-> "conservative", enable_news_analysis |-> b, enable_ai_analysis |-> b] :
        b \in BOOLEAN}

\* the locals of a cycle: the scanned candidates, the index of the candidate
\* in hand, the enhanced list, what is held of the candidate in hand across
\* the AI await (its sizing, its news, what validate_trade returned for it),
\* the levels the candidates were sized under so far, and the indices of the
\* candidates validate_trade rejected
NoCycle ==
    [opportunities |-> <<>>, index |-> 1, enhanced |-> <<>>, profiles |-> <<>>,
     rejected |-> {},
     position_sizing |-> NoSizing, news_sentiment |-> NoNews,
     validation |-> [valid |-> FALSE, reason |-> "none"]]

\* AutoOpportunityDetector.__init__
DetectorConstructed(config) ==
    /\ dt_config = config
    /\ dt_scanner = FALSE
    /\ dt_ollama = FALSE
    /\ dt_news = FALSE
    /\ dt_is_running = FALSE
    /\ detected_opportunities = <<>>
    /\ active_positions = <<>>
    /\ dt_loop = [t \in DetLoops |-> "none"]
    /\ dt_cycle = [t \in DetLoops |-> NoCycle]

\* a detector nobody uses: the default AutoDetectorConfig
DetectorIdle ==
    DetectorConstructed([risk_level |-> "conservative", enable_news_analysis |-> TRUE,
                         enable_ai_analysis |-> TRUE])

\* the lists scan_all_opportunities may hand to a cycle: filtered and sorted
\* by overall_score
ScanResults ==
    LET strong == create_opportunity_from_analysis(
                      [pair |-> 1, market_type |-> "spot"], 1,
                      AnalysisResult("support_resistance", "buy", Q(9, 10), NoLevels))
        fair == create_opportunity_from_analysis(
                      [pair |-> 1, market_type |-> "futures"], 2,
                      AnalysisResult("support_resistance", "sell", Q(7, 10), NoLevels))
    IN  {<<>>, <<strong>>, <<fair>>, <<strong, fair>>}

\* what the news analysis gives when there is a news analyzer
NewsSentiments ==
    {[empty |-> FALSE, score |-> Q(8, 10), impact_score |-> Q(9, 10), relevance |-> Q(79, 100)]}

\* what the AI gives when there is one: {} on a failure, or an analysis
AiAnalyses ==
    {NoAi, [empty |-> FALSE, recommendation |-> "hold", confidence |-> QOne]}

\* the EnhancedOpportunity appended for a candidate, with what validate_trade
\* returned for it
EnhancedOpportunity(opportunity, position_sizing, news_sentiment, ai_analysis, config, validation) ==
    [base_opportunity |-> opportunity, risk_level |-> config.risk_level,
     position_sizing |-> position_sizing, news_sentiment |-> news_sentiment,
     ai_analysis |-> ai_analysis,
     priority |-> calculate_priority(opportunity, news_sentiment, ai_analysis),
     execution_score |-> calculate_execution_score(opportunity, news_sentiment, ai_analysis),
     validation |-> validation]

\* variant of enhance_keeps: the verdict of validate_trade is not looked at
enhance_keeps_all(validation) == TRUE

\* if not is_valid: continue
enhance_keeps(validation) == validation.valid

\* the for loop of _enhance_opportunities from the candidate in hand on, up
\* to the await of _analyze_with_ai (suspended) or to the end of the list:
\* sizing and validation under the level, positions and metrics of now; a
\* candidate whose sizing raises or that is not valid is skipped
RECURSIVE enhance_from(_, _, _, _, _, _, _)
enhance_from(cycle, level, positions, metrics, config, with_ai, news_sentiment) ==
    IF cycle.index > Len(cycle.opportunities)
    THEN [suspended |-> FALSE, cycle |-> cycle]
    ELSE LET opportunity == cycle.opportunities[cycle.index]
             sized == [cycle EXCEPT !.profiles = Append(@, level)]
             skipped == [sized EXCEPT !.index = @ + 1]
         IN  IF calculate_position_size_raises(opportunity, simulated_balance,
                                               opportunity.volatility_score, EmptyDict, level)
             THEN enhance_from(skipped, level, positions, metrics, config, with_ai,
                               news_sentiment)
             ELSE LET position_sizing ==
                          calculate_position_size(opportunity, simulated_balance,
                                                  opportunity.volatility_score, EmptyDict, level)
                      validation == validate_trade(opportunity, position_sizing,
                                                   positions, metrics, level)
                      held == [sized EXCEPT !.position_sizing = position_sizing,
                                            !.news_sentiment = news_sentiment,
                                            !.validation = validation]
                  IN  IF ~enhance_keeps(validation)
                      THEN enhance_from([skipped EXCEPT !.rejected = @ \cup {cycle.index}],
                                        level, positions, metrics, config, with_ai,
                                        news_sentiment)
                      ELSE IF with_ai
                      THEN [suspended |-> TRUE, cycle |-> held]
                      ELSE enhance_from(
                               [skipped EXCEPT !.enhanced =
                                   Append(@, EnhancedOpportunity(opportunity, position_sizing,
                                                                 news_sentiment, NoAi, config,
                                                                 validation))],
                               level, positions, metrics, config, with_ai, news_sentiment)

\* initialize(exchange_configs): the scanner, the news analyzer and the AI
\* are set one after the other; an await that raises leaves the rest unset
DetInitialize ==
    /\ ~dt_scanner
    /\ \E outcome \in {"ok", "connect_failed", "scanner_failed", "ai_failed"} :
          /\ outcome = "ai_failed" => dt_config.enable_ai_analysis
          /\ dt_scanner' = (outcome # "connect_failed")
          /\ dt_news' = (outcome \in {"ok", "ai_failed"} /\ dt_config.enable_news_analysis)
          /\ dt_ollama' = (outcome \in {"ok", "ai_failed"} /\ dt_config.enable_ai_analysis)
    /\ UNCHANGED <<dt_config, dt_is_running, detected_opportunities, active_positions,
                   dt_loop, dt_cycle>>
    /\ UNCHANGED <<current_risk_level, current_metrics>>
    /\ UNCHANGED notDetector

\* start_detection(): nothing when running, else is_running and a new
\* _detection_loop task
StartDetection ==
    /\ \E t \in DetLoops : dt_loop[t] = "none"
    /\ IF dt_is_running
       THEN UNCHANGED <<dt_is_running, dt_loop>>
       ELSE /\ dt_is_running' = TRUE
            /\ LET t == CHOOSE u \in DetLoops :
                            dt_loop[u] = "none" /\ \A v \in DetLoops : dt_loop[v] = "none" => u <= v
               IN  dt_loop' = [dt_loop EXCEPT ![t] = "sleeping"]
    /\ UNCHANGED <<dt_config, dt_scanner, dt_ollama, dt_news, detected_opportunities,
                   active_positions, dt_cycle>>
    /\ UNCHANGED <<current_risk_level, current_metrics>>
    /\ UNCHANGED notDetector

\* variant of StopDetection: the cycles in progress are abandoned
StopDetection_interrupting ==
    /\ dt_is_running' = FALSE
    /\ dt_loop' = [t \in DetLoops |->
                     IF dt_loop[t] \in {"scanning", "enhancing"} THEN "done" ELSE dt_loop[t]]
    /\ UNCHANGED <<dt_config, dt_scanner, dt_ollama, dt_news, detected_opportunities,
                   active_positions, dt_cycle>>
    /\ UNCHANGED <<current_risk_level, current_metrics>>
    /\ UNCHANGED notDetector

\* stop_detection()
StopDetection ==
    /\ dt_is_running' = FALSE
    /\ UNCHANGED <<dt_config, dt_scanner, dt_ollama, dt_news, detected_opportunities,
                   active_positions, dt_loop, dt_cycle>>
    /\ UNCHANGED <<current_risk_level, current_metrics>>
    /\ UNCHANGED notDetector

\* variant of publish: the ranked list is added to the list in place
publish_merging(published, filtered_opportunities) == published \o filtered_opportunities

\* self.detected_opportunities = filtered_opportunities
publish(published, filtered_opportunities) == filtered_opportunities

\* the rest of a cycle once _enhance_opportunities has gone as far as it can:
\* suspended at the AI, or filter, publish and sleep; of the locals, the
\* candidates scanned, what the cycle sized them under and what it rejected
\* is kept until the next cycle
CycleGoesOn(t, reached) ==
    IF reached.suspended
    THEN /\ dt_loop' = [dt_loop EXCEPT ![t] = "enhancing"]
         /\ dt_cycle' = [dt_cycle EXCEPT ![t] = reached.cycle]
         /\ UNCHANGED detected_opportunities
    ELSE /\ dt_loop' = [dt_loop EXCEPT ![t] = "sleeping"]
         /\ dt_cycle' = [dt_cycle EXCEPT ![t] =
                            [NoCycle EXCEPT !.opportunities = reached.cycle.opportunities,
                                            !.profiles = reached.cycle.profiles,
                                            !.rejected = reached.cycle.rejected]]
         /\ detected_opportunities' =
                publish(detected_opportunities, filter_and_prioritize(reached.cycle.enhanced))

\* variant of exception_handled: the exception leaves the loop and ends its task
exception_handled_by_nobody == "crashed"

\* except Exception: the error is logged and the task awaits asyncio.sleep(5)
exception_handled == "backoff"

\* an exception is raised in the cycle's code once the await it was suspended
\* at has returned: the locals are gone, nothing is published
DetCycleRaises(t) ==
    /\ dt_loop[t] \in {"scanning", "enhancing"}
    /\ dt_loop' = [dt_loop EXCEPT ![t] = exception_handled]
    /\ dt_cycle' = [dt_cycle EXCEPT ![t] = NoCycle]
    /\ UNCHANGED <<dt_config, dt_scanner, dt_ollama, dt_news, dt_is_running,
                   detected_opportunities, active_positions>>
    /\ UNCHANGED <<current_risk_level, current_metrics>>
    /\ UNCHANGED notDetector

\* variant of emergency_stop_all_positions: the positions are left as they are
emergency_stop_keeps_positions(positions) == positions

\* _emergency_stop_all_positions: self.active_positions.clear()
emergency_stop_all_positions(positions) == <<>>

\* _detection_loop, from the end of a sleep or of a backoff (or the creation
\* of the task) to the next await: the while test (the task is done when it fails), the
\* emergency test with its _emergency_stop_all_positions and break (the task
\* is halted), else the cycle up to the scan; without a scanner the cycle
\* publishes [] and sleeps
DetLoopIterate(t) ==
    /\ dt_loop[t] \in {"sleeping", "backoff"}
    /\ IF ~dt_is_running
       THEN /\ dt_loop' = [dt_loop EXCEPT ![t] = "done"]
            /\ UNCHANGED <<dt_is_running, active_positions, detected_opportunities, dt_cycle>>
       ELSE IF should_emergency_stop(current_metrics, current_risk_level)
       THEN /\ dt_loop' = [dt_loop EXCEPT ![t] = "halted"]
            /\ active_positions' = emergency_stop_all_positions(active_positions)
            /\ dt_is_running' = FALSE
            /\ UNCHANGED <<detected_opportunities, dt_cycle>>
       ELSE IF ~dt_scanner
       THEN /\ dt_loop' = [dt_loop EXCEPT ![t] = "sleeping"]
            /\ dt_cycle' = [dt_cycle EXCEPT ![t] = NoCycle]
            /\ detected_opportunities' = publish(detected_opportunities, <<>>)
            /\ UNCHANGED <<dt_is_running, active_positions>>
       ELSE /\ dt_loop' = [dt_loop EXCEPT ![t] = "scanning"]
            /\ dt_cycle' = [dt_cycle EXCEPT ![t] = NoCycle]
            /\ UNCHANGED <<dt_is_running, active_positions, detected_opportunities>>
    /\ UNCHANGED <<dt_config, dt_scanner, dt_ollama, dt_news>>
    /\ UNCHANGED <<current_risk_level, current_metrics>>
    /\ UNCHANGED notDetector

\* the scan returns: the list is cut to max_opportunities_per_scan and
\* enhanced up to the first await
DetScanReturns(t) ==
    /\ dt_loop[t] = "scanning"
    /\ \E scanned \in ScanResults,
          news_sentiment \in (IF dt_news /\ dt_config.enable_news_analysis
                              THEN NewsSentiments ELSE {NoNews}) :
          CycleGoesOn(t,
              enhance_from([NoCycle EXCEPT !.opportunities =
                                IF Len(scanned) <= max_opportunities_per_scan THEN scanned
                                ELSE SubSeq(scanned, 1, max_opportunities_per_scan)],
                           current_risk_level, active_positions, current_metrics, dt_config,
                           dt_ollama /\ dt_config.enable_ai_analysis, news_sentiment))
    /\ UNCHANGED <<dt_config, dt_scanner, dt_ollama, dt_news, dt_is_running, active_positions>>
    /\ UNCHANGED <<current_risk_level, current_metrics>>
    /\ UNCHANGED notDetector

\* _analyze_with_ai returns for the candidate in hand: it is appended, and
\* the loop goes on with the next candidate under the level of now
DetAiReturns(t) ==
    /\ dt_loop[t] = "enhancing"
    /\ \E ai_analysis \in AiAnalyses,
          news_sentiment \in (IF dt_news /\ dt_config.enable_news_analysis
                              THEN NewsSentiments ELSE {NoNews}) :
          LET cycle == dt_cycle[t]
              appended ==
                  [cycle EXCEPT
                      !.enhanced = Append(@, EnhancedOpportunity(
                                                cycle.opportunities[cycle.index],
                                                cycle.position_sizing, cycle.news_sentiment,
                                                ai_analysis, dt_config,
                                                cycle.validation)),
                      !.index = @ + 1]
          IN  CycleGoesOn(t,
                  enhance_from(appended, current_risk_level, active_positions,
                               current_metrics, dt_config,
                               dt_ollama /\ dt_config.enable_ai_analysis, news_sentiment))
    /\ UNCHANGED <<dt_config, dt_scanner, dt_ollama, dt_news, dt_is_running, active_positions>>
    /\ UNCHANGED <<current_risk_level, current_metrics>>
    /\ UNCHANGED notDetector

\* the layer that executes trades appends a position to active_positions
PositionOpened ==
    /\ Len(active_positions) < MaxPositions
    /\ active_positions' = Append(active_positions, Position(QInt(7000), TRUE))
    /\ UNCHANGED <<dt_config, dt_scanner, dt_ollama, dt_news, dt_is_running,
                   detected_opportunities, dt_loop, dt_cycle>>
    /\ UNCHANGED <<current_risk_level, current_metrics>>
    /\ UNCHANGED notDetector

----------------------------------------------------------------------------
(* Specification of the RiskManager alone: any caller, any order of calls *)

MaxTradesLen == 2
PnlSet == {-6, -3, 0, 100}
ExposureSet == {0, 19500, 30000}
BalanceSet == {0, 10000}

RECURSIVE SeqsUpTo(_, _)
SeqsUpTo(S, n) ==
    IF n = 0 THEN {<<>>}
    ELSE LET shorter == SeqsUpTo(S, n - 1)
         IN  shorter \cup {Append(q, x) : q \in {r \in shorter : Len(r) = n - 1}, x \in S}

TradeLists == SeqsUpTo(PnlSet, MaxTradesLen)

InitRisk ==
    RiskConstructed /\ SizingIdle /\ ValidateIdle /\ RankIdle /\ FuseIdle /\ AutopilotIdle /\ ScannerIdle /\ ScoresIdle /\ StpIdle /\ DetectorIdle

NextRisk ==
    \/ \E l \in RiskLevel : SetRiskLevel(l)
    \/ \E e \in ExposureSet, r \in TradeLists, b \in BalanceSet : UpdateRiskMetrics(e, r, b)
    \/ ShouldEmergencyStopCall

SpecRisk == InitRisk /\ [][NextRisk]_vars

\* C1: once should_emergency_stop() has reported a halt, every later call
\* reports a halt as well, whatever update_risk_metrics() and set_risk_level()
\* calls come in between (the RiskManager has no reset operation).
C1_HaltIsSticky == halt_reported => stop_result = "halt"

\* C19: when no halt condition holds, the state reported is Warning if the
\* drawdown exceeds 0.8 x emergency_stop_loss, or the risk score 0.8 x 0.9, or
\* the margin utilization 0.8 x 0.95, and Normal otherwise.
C19_WarningState ==
    LET profile == risk_profiles[current_risk_level]
        near ==
            \/ QGt(current_metrics.max_drawdown, QMul(Q(8, 10), profile.emergency_stop_loss))
            \/ QGt(current_metrics.risk_score, QMul(Q(8, 10), Q(9, 10)))
            \/ QGt(current_metrics.margin_utilization, QMul(Q(8, 10), Q(95, 100)))
    IN  ~should_emergency_stop(current_metrics, current_risk_level) =>
            safety_state(current_metrics, current_risk_level) =
                (IF near THEN "warning" ELSE "normal")

----------------------------------------------------------------------------
(* Specification of sizing: the inputs of one call are drawn, the call is made *)

ConfidenceSet == {QZero, Q(1, 2), Q(9, 10), QOne}
RiskRewardSet == {QZero, Q(1, 2), QInt(2)}
Volume24hSet == {0, 5000000, 20000000}
VolatilityScoreSet == {QZero, QOne}
SizingBalanceSet == {QZero, QInt(1000), QInt(10000)}
VolatilitySet == {QZero, Q(5, 100), Q(2, 10)}
TrendStrengthSet == {QZero, QOne, QInt(2)}
MarketConditionsSet ==
    {EmptyDict} \cup {[k \in {"trend_strength"} |-> t] : t \in TrendStrengthSet}

SizingOpportunities ==
    {MakeOpportunity(c, rr, v, vs) :
        c \in ConfidenceSet, rr \in RiskRewardSet, v \in Volume24hSet,
        vs \in VolatilityScoreSet}

InitSizing ==
    /\ RiskConstructed
    /\ sz_opportunity \in SizingOpportunities
    /\ sz_balance \in SizingBalanceSet
    /\ sz_volatility \in VolatilitySet
    /\ sz_market \in MarketConditionsSet
    /\ sz_status = "none"
    /\ sizing = NoSizing
    /\ ValidateIdle
    /\ RankIdle
    /\ FuseIdle
    /\ AutopilotIdle
    /\ ScannerIdle /\ ScoresIdle /\ StpIdle
    /\ DetectorIdle

NextSizing == CalculatePositionSize

SpecSizing == InitSizing /\ [][NextSizing]_vars

\* C4: for every profile, confidence in [0,1], volatility >= 0 and market
\* context, the leverage calculate_position_size returns is at most the
\* profile's max_leverage.
C4_LeverageBounded ==
    sz_status = "ok" =>
        QLe(sizing.leverage, get_current_profile(current_risk_level).max_leverage)

\* C4 witness: a sizing was returned in dynamic mode whose unclamped product
\* (5 x 1 x 1 x 2) exceeds max_leverage, so the clamp decided the leverage
C4_Witness ==
    /\ sz_status = "ok"
    /\ current_risk_level = "aggressive"
    /\ sz_opportunity.confidence = QOne
    /\ sz_volatility = QZero
    /\ DictGet(sz_market, "trend_strength", QZero) = QInt(2)
    /\ sizing.leverage = QInt(5)

\* C5: for every candidate, balance and profile, the adjusted_size returned is
\* at most min(profile.max_position_size, balance x profile.max_leverage).
C5_AdjustedSizeBounded ==
    sz_status = "ok" =>
        LET profile == get_current_profile(current_risk_level)
        IN  QLe(sizing.adjusted_size,
                QMin(profile.max_position_size, QMul(sz_balance, profile.max_leverage)))

\* C5 witness: a sizing was returned whose base_size x leverage is above the
\* balance limit but below max_position_size: the balance limit decided it
C5_Witness ==
    /\ sz_status = "ok"
    /\ QGt(QMul(sizing.base_size, sizing.leverage), sizing.adjusted_size)
    /\ QLt(sizing.adjusted_size, get_current_profile(current_risk_level).max_position_size)
    /\ QGt(sizing.adjusted_size, QZero)

\* C28: with Kelly sizing the base size is balance x f, where
\* f = (p*b - (1-p))/b is clamped to [0, 0.25], for every confidence p in [0,1]
\* and risk/reward b > 0; for p = 0.9 and b = 2 the unclamped 0.85 becomes 0.25.
C28_KellyClamped ==
    (/\ sz_status = "ok"
     /\ get_current_profile(current_risk_level).position_sizing_method = "kelly_criterion"
     /\ QGt(sz_opportunity.risk_reward_ratio, QZero)) =>
        LET p == sz_opportunity.confidence
            b == sz_opportunity.risk_reward_ratio
            f == QDiv(QSub(QMul(p, b), QSub(QOne, p)), b)
        IN  /\ QLt(f, QZero) => sizing.base_size = QZero
            /\ QGt(f, Q(1, 4)) => sizing.base_size = QMul(sz_balance, Q(1, 4))
            /\ (QGe(f, QZero) /\ QLe(f, Q(1, 4))) => sizing.base_size = QMul(sz_balance, f)
            /\ (p = Q(9, 10) /\ b = QInt(2)) =>
                  f = Q(85, 100) /\ sizing.base_size = QMul(sz_balance, Q(25, 100))

\* C28 witness: a Kelly sizing was returned for confidence 0.9 and risk/reward
\* 2 on a balance of 10000: the base size is 2500
C28_Witness ==
    /\ sz_status = "ok"
    /\ current_risk_level = "conservative"
    /\ sz_opportunity.confidence = Q(9, 10)
    /\ sz_opportunity.risk_reward_ratio = QInt(2)
    /\ sz_balance = QInt(10000)
    /\ sizing.base_size = QInt(2500)

----------------------------------------------------------------------------
(* Specification of validate_trade: the arguments are drawn, then validated *)

MaxOpenPositions == 5
ValidateConfidenceSet == {Q(5, 10), Q(9, 10)}
ValidateSizings ==
    {[position_value |-> v, leverage |-> l] :
        v \in {QInt(1000), QInt(200000)}, l \in {QOne, QInt(20)}}
ValidateDrawdownSet == {QZero, Q(1, 2)}
ValidatePositions ==
    SeqsUpTo({Position(QInt(1000), today) : today \in BOOLEAN}, MaxOpenPositions)

ValidateCalls ==
    {[opportunity |-> [confidence |-> c], position_sizing |-> ps,
      current_positions |-> positions, metrics |-> [max_drawdown |-> dd], level |-> l] :
        c \in ValidateConfidenceSet, ps \in ValidateSizings,
        positions \in ValidatePositions, dd \in ValidateDrawdownSet, l \in RiskLevel}

InitValidate ==
    /\ RiskIdle
    /\ SizingIdle
    /\ \E call \in ValidateCalls : ValidateConstructed(call)
    /\ RankIdle
    /\ FuseIdle
    /\ AutopilotIdle
    /\ ScannerIdle /\ ScoresIdle /\ StpIdle
    /\ DetectorIdle

NextValidate == ValidateTrade

SpecValidate == InitValidate /\ [][NextValidate]_vars

\* the six checks in the order stated, each TRUE when it passes
ChecksPassed(call) ==
    LET profile == risk_profiles[call.level]
        positions == call.current_positions
        today == Cardinality({i \in DOMAIN positions : positions[i].today})
        exposure == QSum([i \in DOMAIN positions |-> positions[i].position_value])
    IN  <<QGe(call.opportunity.confidence, profile.confidence_threshold),
          today < profile.max_daily_trades,
          Len(positions) < profile.diversification_limit,
          QLe(QAdd(exposure, call.position_sizing.position_value),
              QMul(profile.max_position_size, QInt(profile.diversification_limit))),
          QLe(call.position_sizing.leverage, profile.max_leverage),
          QLe(call.metrics.max_drawdown, profile.max_drawdown)>>

CheckReasons ==
    <<"confidence", "daily_trades", "diversification", "exposure", "leverage", "drawdown">>

\* C12: validate_trade evaluates confidence, today's trade count, open
\* positions, exposure, leverage and drawdown in that order; it returns False
\* with the reason of the first check that fails, and True only when all six
\* pass.
C12_FirstFailingCheck ==
    vt_result # NotReturned =>
        LET passed == ChecksPassed(vt_call)
            failing == {i \in 1..6 : ~passed[i]}
        IN  /\ vt_result.valid <=> failing = {}
            /\ failing # {} =>
                  vt_result.reason =
                      CheckReasons[CHOOSE i \in failing : \A j \in failing : i <= j]

\* C12 witness: a call returned the day's trade limit while the
\* diversification, exposure, leverage and drawdown checks would fail too
C12_Witness ==
    /\ vt_result = [valid |-> FALSE, reason |-> "daily_trades"]
    /\ \A i \in 2..6 : ~ChecksPassed(vt_call)[i]

----------------------------------------------------------------------------
(* Specification of _filter_and_prioritize: a list is drawn, then ranked *)

MaxCandidates == 3
Priorities == {"critical", "high", "low"}
ExecutionScoreSet == {Q(6, 10), Q(7, 10), Q(9, 10)}

\* the lists of enhanced opportunities, each marked with its place of arrival
CandidateLists ==
    UNION {[1..n -> Priorities \X ExecutionScoreSet] : n \in 0..MaxCandidates}
Candidates(list) ==
    [i \in DOMAIN list |->
        [arrival |-> i, priority |-> list[i][1], execution_score |-> list[i][2]]]

InitRank ==
    /\ RiskIdle
    /\ SizingIdle
    /\ ValidateIdle
    /\ \E list \in CandidateLists : RankConstructed(Candidates(list))
    /\ FuseIdle
    /\ AutopilotIdle
    /\ ScannerIdle /\ ScoresIdle /\ StpIdle
    /\ DetectorIdle

NextRank == FilterAndPrioritize

SpecRank == InitRank /\ [][NextRank]_vars

PriorityRank == [critical |-> 4, high |-> 3, medium |-> 2, low |-> 1]

\* C13: _filter_and_prioritize returns the candidates (those at or above the
\* minimum execution score) by priority descending, critical > high > medium >
\* low, then execution_score descending; candidates equal on both keys keep
\* their arrival order. The order being total on the candidates, the same
\* input yields the same output.
C13_RankedStably ==
    fp_returned # NotRanked =>
        /\ Len(fp_returned) = Cardinality({fp_returned[i] : i \in DOMAIN fp_returned})
        /\ {fp_returned[i] : i \in DOMAIN fp_returned} =
              {fp_opportunities[i] : i \in {j \in DOMAIN fp_opportunities :
                    QGe(fp_opportunities[j].execution_score, min_execution_score)}}
        /\ \A i, j \in DOMAIN fp_returned : i < j =>
              LET a == fp_returned[i]
                  b == fp_returned[j]
              IN  \/ PriorityRank[a.priority] > PriorityRank[b.priority]
                  \/ /\ a.priority = b.priority
                     /\ QGt(a.execution_score, b.execution_score)
                  \/ /\ a.priority = b.priority
                     /\ a.execution_score = b.execution_score
                     /\ a.arrival < b.arrival

\* C13 witness: a list was returned reordered, with two candidates equal on
\* both keys in it and a candidate of a lower score but a higher priority
\* ahead of another
C13_Witness ==
    /\ fp_returned # NotRanked
    /\ Len(fp_returned) = 3
    /\ fp_returned # fp_opportunities
    /\ fp_returned[2].priority = fp_returned[3].priority
    /\ fp_returned[2].execution_score = fp_returned[3].execution_score
    /\ QLt(fp_returned[1].execution_score, fp_returned[2].execution_score)

----------------------------------------------------------------------------
(* Specification of fusion: the results of one round are drawn, then fused *)

\* config.enabled_strategies of the runs checked
FuseStrategies == {"support_resistance", "ict_techniques", "fibonacci"}
FuseConfidenceSet == {Q(15, 100), Q(25, 100), Q(40, 100), Q(50, 100), Q(60, 100)}
Actions == {"buy", "sell", "hold"}

StrategyResults ==
    {ErrorResult} \cup
    {[error |-> FALSE, action |-> a, confidence |-> c] : a \in Actions, c \in FuseConfidenceSet}

\* every dict of results: a strategy may be missing (its task raised)
AnalysisResults ==
    UNION {[present -> StrategyResults] : present \in SUBSET FuseStrategies}

InitFuse ==
    /\ RiskIdle
    /\ SizingIdle
    /\ ValidateIdle
    /\ RankIdle
    /\ \E analysis_results \in AnalysisResults : FuseConstructed(analysis_results)
    /\ AutopilotIdle
    /\ ScannerIdle /\ ScoresIdle /\ StpIdle
    /\ DetectorIdle

NextFuse == ConsolidateSignals \/ ClockTick

SpecFuse == InitFuse /\ [][NextFuse]_vars

\* the total of one bucket, summed strategy by strategy
StrategyOrder ==
    <<"support_resistance", "channel_analysis", "ict_techniques", "fibonacci",
      "session_analysis", "spread_analysis">>
BucketTotal(results, a) ==
    QSum([i \in 1..Len(StrategyOrder) |->
            LET st == StrategyOrder[i]
            IN  IF st \in DOMAIN results /\ ~results[st].error /\ results[st].action = a
                THEN QMul(results[st].confidence, StrategyWeight[st])
                ELSE QZero])

\* the scenario of the specification: {sr 0.6 buy, ict 0.25 buy, fib 0.15 sell}
FuseScenario ==
    [st \in FuseStrategies |->
        CASE st = "support_resistance" -> [error |-> FALSE, action |-> "buy", confidence |-> Q(60, 100)]
          [] st = "ict_techniques" -> [error |-> FALSE, action |-> "buy", confidence |-> Q(25, 100)]
          [] st = "fibonacci" -> [error |-> FALSE, action |-> "sell", confidence |-> Q(15, 100)]]

\* C10: each result adds confidence x weight to the bucket of its action; the
\* fused action is the bucket with the strictly greatest total and the fused
\* confidence is that total; any tie for the greatest total yields hold; the
\* scenario {sr 0.6 buy, ict 0.25 buy, fib 0.15 sell} fuses to buy, 0.1825.
C10_FusionRule ==
    fuse_status \in {"done", "again"} =>
        /\ \A a \in Actions :
              (\A b \in Actions \ {a} :
                    QGt(BucketTotal(fuse_results, a), BucketTotal(fuse_results, b)))
              => /\ fused.action = a
                 /\ fused.confidence = BucketTotal(fuse_results, a)
        /\ (\A a \in Actions : \E b \in Actions \ {a} :
                    QLe(BucketTotal(fuse_results, a), BucketTotal(fuse_results, b)))
              => fused.action = "hold"
        /\ fuse_results = FuseScenario
              => fused.action = "buy" /\ fused.confidence = Q(1825, 10000)

\* C10 witness: the scenario has been fused
C10_Witness ==
    /\ fuse_status = "done"
    /\ fuse_results = FuseScenario
    /\ fused.action = "buy"

\* C11: two calls of _consolidate_signals with the same strategy results
\* return TradingSignals equal in every field, whenever they are called.
C11_FusionIdempotent ==
    fuse_status = "again" =>
        /\ fused = fuse_first.signal
        /\ fuse_timestamp = fuse_first.timestamp

\* C29: strategy_contributions has exactly one entry per strategy result
\* without error, equal to confidence x weight; a strategy whose analyzer
\* failed has no entry; and the fused confidence is the sum of the
\* contributions of the strategies whose action is the fused action.
C29_Contributions ==
    fuse_status \in {"done", "again"} =>
        LET contributions == fused.strategy_contributions
        IN  /\ DOMAIN contributions = {st \in DOMAIN fuse_results : ~fuse_results[st].error}
            /\ \A st \in DOMAIN contributions :
                  contributions[st] = QMul(fuse_results[st].confidence, StrategyWeight[st])
            /\ fused.confidence =
                  QSum([i \in 1..Len(StrategyOrder) |->
                          LET st == StrategyOrder[i]
                          IN  IF st \in DOMAIN contributions
                                 /\ fuse_results[st].action = fused.action
                              THEN contributions[st] ELSE QZero])

\* C29 witness: a fusion to buy of two buy results and one failed analyzer
C29_Witness ==
    /\ fuse_status = "done"
    /\ fused.action = "buy"
    /\ \E st \in DOMAIN fuse_results : fuse_results[st].error
    /\ Cardinality(DOMAIN fused.strategy_contributions) = 2
    /\ \A st \in DOMAIN fused.strategy_contributions : fuse_results[st].action = "buy"

\* a tie for the greatest total between buy and sell has been fused
C10_TieReached ==
    /\ fuse_status = "done"
    /\ BucketTotal(fuse_results, "buy") = BucketTotal(fuse_results, "sell")
    /\ QGt(BucketTotal(fuse_results, "buy"), BucketTotal(fuse_results, "hold"))

----------------------------------------------------------------------------
(* Specification of the AutopilotEngine: any configuration, any order of    *)
(* lifecycle calls, loop steps in any interleaving                          *)

InitAutopilot ==
    /\ RiskIdle
    /\ SizingIdle
    /\ ValidateIdle
    /\ RankIdle
    /\ FuseIdle
    /\ \E config \in AutopilotConfigs : AutopilotConstructed(config)
    /\ ScannerIdle /\ ScoresIdle /\ StpIdle
    /\ DetectorIdle

NextAutopilot ==
    \/ InitializeBegin
    \/ InitializeEnd
    \/ Start
    \/ Stop
    \/ Pause
    \/ Resume
    \/ EmergencyStop
    \/ \E t \in Loops : LoopIterate(t)
    \/ \E t \in Loops : LoopAnalyze(t)
    \/ \E t \in Loops : LoopExecute(t)
    \/ NewDay

SpecAutopilot == InitAutopilot /\ [][NextAutopilot]_vars

\* C3: the number of trades recorded for one calendar day never exceeds
\* config.max_daily_trades, whatever the cycles and lifecycle calls.
C3_DailyTradesBounded ==
    \A d \in Days : ap_trades[d] <= MaxDailyTrades

\* C17: once status is EMERGENCY_STOP it stays EMERGENCY_STOP with is_running
\* False until an explicit start() (or initialize(), or stop()); pause(),
\* resume() and the daily-trade-limit check never move it out.
C17_EmergencyStopSticky ==
    [][ap_status = "emergency_stop" =>
          \/ ap_status' = "emergency_stop" /\ ~ap_is_running'
          \/ ap_status' = "running" /\ ap_is_running'
          \/ ap_status' = "stopped" /\ ~ap_is_running']_vars

\* C23: for an engine that was started (RUNNING, is_running), a pause() leaves
\* status PAUSED and is_running False.
C23_PauseStopsRunning ==
    [][(ap_status = "running" /\ ap_is_running /\ ap_status' = "paused")
          => ~ap_is_running']_vars

\* the _main_loop tasks that were created and have not returned
AliveLoops == {t \in Loops : ap_loop[t] \notin {"none", "done"}}

\* C24: whenever status is RUNNING and is_running is true, exactly one
\* _main_loop task is alive; so after initialize() then start(), and after
\* stop() then start() while the previous loop is still sleeping.
C24_ExactlyOneLoop ==
    (ap_status = "running" /\ ap_is_running) => Cardinality(AliveLoops) = 1

----------------------------------------------------------------------------
(* Specification of the PairScanner: scans one after the other, the scan    *)
(* tasks of a batch in any interleaving, any outcome for every task         *)

InitScanner ==
    /\ RiskIdle
    /\ SizingIdle
    /\ ValidateIdle
    /\ RankIdle
    /\ FuseIdle
    /\ AutopilotIdle
    /\ \E pairs \in 0..MaxPairs : ScannerConstructed(pairs)
    /\ DetectorIdle /\ ScoresIdle /\ StpIdle

NextScanner ==
    \/ ScanBegin
    \/ \E i \in Tasks : ItemStart(i)
    \/ \E i \in Tasks : ItemFetched(i)
    \/ \E i \in Tasks : ItemAnalyzed(i)
    \/ BatchCollect
    \/ AfterPause

SpecScanner == InitScanner /\ [][NextScanner]_vars

\* the opportunities of `opportunities` that task i produced
OfTask(opportunities, i) == SelectSeq(opportunities, LAMBDA opp : opp.task = i)

\* C8: when an exception was raised in a scan task, the scan still returns
\* (it does not raise) and the returned list holds, for every other task of
\* the scan, in the same batch or a later one, every opportunity that task
\* produced and the scanner's filter keeps.
C8_FaultIsolation ==
    (sc_scan = "returned" /\ sc_raised # {}) =>
        \A i \in Tasks \ sc_raised :
            OfTask(sc_returned, i) = filter_opportunities(sc_result[i])

\* C8 witness: a scan has returned in which a task of the first batch raised
\* and tasks of that batch and of a later batch produced opportunities that
\* were returned
C8_Witness ==
    /\ sc_scan = "returned"
    /\ \E i, j, k \in Tasks :
          /\ i \in sc_raised /\ j \notin sc_raised /\ k \notin sc_raised
          /\ i <= BatchSize /\ j <= BatchSize /\ j # i /\ k > BatchSize
          /\ OfTask(sc_returned, j) # <<>>
          /\ OfTask(sc_returned, k) # <<>>

\* C9: the number of scan tasks in flight never exceeds parallel_workers.
C9_InFlightBounded ==
    Cardinality(InFlight) <= ParallelWorkers

\* C30: once _get_market_data has cached a frame for a key, every later call
\* for that key, in the same scan or a later one, returns that frame without
\* a fetch, and no operation of the scanner evicts or replaces the entry.
C30_CacheEntryFixed ==
    [][/\ \A key \in DOMAIN market_data_cache :
             market_data_cache[key] # NoFrame =>
                 market_data_cache'[key] = market_data_cache[key]
       /\ \A i \in Tasks :
             (/\ sc_item[i] = "pending"
              /\ sc_item'[i] # "pending"
              /\ market_data_cache[cache_key(scan_tasks(pairs_cache)[i])] # NoFrame) =>
                 /\ sc_item'[i] # "fetching"
                 /\ sc_data'[i] = market_data_cache[cache_key(scan_tasks(pairs_cache)[i])]]_vars

----------------------------------------------------------------------------
(* Specification of the AutoOpportunityDetector with its RiskManager: any   *)
(* configuration, lifecycle calls, loop steps, and the callers of the risk  *)
(* manager and of active_positions, in any interleaving                     *)

\* the trade list the callers of update_risk_metrics pass: a drawdown of 0.06
DetectorTradeLists == {<<100, -6>>}

InitDetector ==
    /\ SizingIdle
    /\ ValidateIdle
    /\ RankIdle
    /\ FuseIdle
    /\ AutopilotIdle
    /\ ScannerIdle /\ ScoresIdle /\ StpIdle
    /\ \E config \in DetectorConfigs :
          /\ DetectorConstructed(config)
          /\ current_risk_level = config.risk_level
    /\ current_metrics = InitialMetrics
    /\ stop_result = "none"
    /\ halt_reported = FALSE

NextDetector ==
    \/ DetInitialize
    \/ StartDetection
    \/ StopDetection
    \/ \E t \in DetLoops : DetLoopIterate(t)
    \/ \E t \in DetLoops : DetScanReturns(t)
    \/ \E t \in DetLoops : DetAiReturns(t)
    \/ \E t \in DetLoops : DetCycleRaises(t)
    \/ PositionOpened
    \/ \E l \in DetectorLevels : SetRiskLevel(l)
    \/ \E returns \in DetectorTradeLists : UpdateRiskMetrics(0, returns, 10000)

SpecDetector == InitDetector /\ [][NextDetector]_vars

\* the emergency condition as the loop tests it
Halted == should_emergency_stop(current_metrics, current_risk_level)

\* C2: a cycle that begins while the emergency condition holds scans nothing
\* and publishes nothing, empties active_positions and clears is_running, and
\* its loop has ended for good; while the condition holds, only a cycle that
\* was already past its start publishes.
C2_HaltedCycle ==
    [][/\ (dt_is_running /\ Halted) =>
            /\ \A t \in DetLoops :
                  (dt_loop[t] \in {"sleeping", "backoff"} /\ dt_loop'[t] # dt_loop[t]) =>
                      /\ dt_loop'[t] = "halted"
                      /\ active_positions' = <<>>
                      /\ ~dt_is_running'
                      /\ detected_opportunities' = detected_opportunities
            /\ detected_opportunities' # detected_opportunities =>
                  \E u \in DetLoops :
                      dt_loop[u] \in {"scanning", "enhancing"} /\ dt_loop'[u] = "sleeping"
       /\ \A t \in DetLoops : dt_loop[t] = "halted" => dt_loop'[t] = "halted"]_vars

\* C2 witness: with a drawdown of 0.06 under the conservative profile a loop
\* has halted after an earlier cycle had published
C2_Witness ==
    /\ \E t \in DetLoops : dt_loop[t] = "halted"
    /\ current_risk_level = "conservative"
    /\ current_metrics.max_drawdown = Q(6, 100)
    /\ detected_opportunities # <<>>
    /\ active_positions = <<>>
    /\ ~dt_is_running

\* C6: within one cycle every candidate is sized and validated under the
\* same risk level.
C6_OneProfilePerCycle ==
    \A t \in DetLoops :
        \A i, j \in DOMAIN dt_cycle[t].profiles :
            dt_cycle[t].profiles[i] = dt_cycle[t].profiles[j]

\* C7: every opportunity of the published list, and every one a cycle has
\* enhanced so far, was accepted by validate_trade in its cycle, and no
\* candidate validate_trade rejected is among the enhanced ones.
C7_PublishedWereValidated ==
    /\ \A i \in DOMAIN detected_opportunities : detected_opportunities[i].validation.valid
    /\ \A t \in DetLoops :
          /\ \A i \in DOMAIN dt_cycle[t].enhanced : dt_cycle[t].enhanced[i].validation.valid
          /\ \A k \in dt_cycle[t].rejected :
                \A i \in DOMAIN dt_cycle[t].enhanced :
                    dt_cycle[t].enhanced[i].base_opportunity # dt_cycle[t].opportunities[k]

\* C7 witness: the only loop has published a list in a cycle in which
\* validate_trade rejected a candidate
C7_Witness ==
    \E t \in DetLoops :
        /\ dt_loop[t] = "sleeping"
        /\ \A u \in DetLoops \ {t} : dt_loop[u] = "none"
        /\ dt_cycle[t].rejected # {}
        /\ detected_opportunities # <<>>

\* a loop is in a cycle from its scan to its publish
InCycle(t) == dt_loop[t] \in {"scanning", "enhancing"}
AtBoundary(t) == dt_loop[t] \in {"sleeping", "backoff"}

\* C14: stop_detection() never interrupts a cycle in progress: a cycle goes
\* on to its publish (or to the backoff of an exception) whatever is_running
\* is; a loop task ends on a stop only at a cycle boundary, where a stop still
\* in force always ends it, and an ended task starts no cycle again.
C14_StopAtBoundary ==
    [][\A t \in DetLoops :
          /\ InCycle(t) => dt_loop'[t] \in {"scanning", "enhancing", "sleeping", "backoff"}
          /\ (InCycle(t) /\ dt_is_running /\ ~dt_is_running') =>
                /\ dt_loop'[t] = dt_loop[t]
                /\ dt_cycle'[t] = dt_cycle[t]
                /\ detected_opportunities' = detected_opportunities
          /\ (dt_loop[t] # "done" /\ dt_loop'[t] = "done") =>
                AtBoundary(t) /\ ~dt_is_running
          /\ (AtBoundary(t) /\ ~dt_is_running /\ dt_loop'[t] # dt_loop[t]) =>
                dt_loop'[t] = "done"
          /\ dt_loop[t] = "done" => dt_loop'[t] = "done"]_vars

\* C14 witness: a stop has been requested while a cycle is in progress, with
\* one candidate enhanced and the next one at the AI
C14_Witness ==
    \E t \in DetLoops :
        /\ dt_loop[t] = "enhancing"
        /\ dt_cycle[t].enhanced # <<>>
        /\ ~dt_is_running
        /\ \A u \in DetLoops : dt_loop[u] # "halted"

\* C15: an exception raised inside a cycle is caught inside the loop: the
\* task waits the backoff and, as long as is_running holds, begins another
\* cycle; the task never ends because of the exception.
C15_ExceptionBackoff ==
    [][\A t \in DetLoops :
          /\ dt_loop'[t] \in {"none", "sleeping", "scanning", "enhancing", "backoff",
                               "done", "halted"}
          /\ (dt_loop[t] = "backoff" /\ dt_loop'[t] # "backoff") =>
                IF ~dt_is_running THEN dt_loop'[t] = "done"
                ELSE IF Halted THEN dt_loop'[t] = "halted"
                ELSE dt_loop'[t] \in {"scanning", "sleeping"}]_vars

\* C15 witness: an exception of a cycle has been caught and the loop is in
\* its backoff, still running, the list published before still in place
C15_Witness ==
    \E t \in DetLoops :
        /\ dt_loop[t] = "backoff"
        /\ detected_opportunities # <<>>
        /\ dt_is_running

\* the loop t completes a cycle in this step: it publishes and goes to sleep
Publishes(t) ==
    \/ InCycle(t) /\ dt_loop'[t] = "sleeping"
    \/ AtBoundary(t) /\ dt_is_running /\ ~Halted /\ ~dt_scanner /\ dt_loop'[t] = "sleeping"

\* C16: when a cycle completes, the published list is the ranked output of
\* that cycle alone: every entry is a candidate of the cycle that the cycle
\* did not reject, at or above the minimum execution score, no candidate
\* twice, in ranked order; nothing of an earlier list stays unless the cycle
\* produced it; and only a completing cycle changes the published list.
C16_PublishReplaces ==
    [][/\ \A t \in DetLoops : Publishes(t) =>
            LET cycle == dt_cycle'[t]
                published == detected_opportunities'
                Candidate(e) ==
                    {i \in DOMAIN cycle.opportunities :
                        cycle.opportunities[i] = e.base_opportunity}
            IN  /\ \A n \in DOMAIN published :
                      /\ Candidate(published[n]) # {}
                      /\ Candidate(published[n]) \cap cycle.rejected = {}
                      /\ QGe(published[n].execution_score, min_execution_score)
                /\ \A n, m \in DOMAIN published :
                      n < m => /\ published[n].base_opportunity # published[m].base_opportunity
                               /\ ~sort_key_greater(published[m], published[n])
       /\ detected_opportunities' # detected_opportunities =>
             \E t \in DetLoops : Publishes(t)]_vars

\* C16 witness: a cycle whose scan gave the one sell candidate has completed
\* and the published list is that candidate alone
C16_Witness ==
    \E t \in DetLoops :
        /\ dt_loop[t] = "sleeping"
        /\ \A u \in DetLoops \ {t} : dt_loop[u] = "none"
        /\ Len(dt_cycle[t].opportunities) = 1
        /\ Len(detected_opportunities) = 1
        /\ detected_opportunities[1].base_opportunity = dt_cycle[t].opportunities[1]
        /\ detected_opportunities[1].base_opportunity.signal = "sell"

\* the loop t makes the safety check of a cycle in this step
ChecksSafety(t) == AtBoundary(t) /\ dt_is_running /\ dt_loop'[t] # dt_loop[t]

\* C18: the safety check of a cycle is made on metrics recomputed in that
\* cycle, never on the metrics left by construction.
C18_FreshMetrics ==
    [][\A t \in DetLoops : ChecksSafety(t) => current_metrics # InitialMetrics]_vars

\* the execution score with the advisory part at its neutral value: 40% the
\* mean of the four technical scores, 30% the news factor (0.5 without news),
\* 30% of 0.5, capped at 1
NeutralScore(e) ==
    LET o == e.base_opportunity
        technical == QDiv(QSum(<<o.confidence, o.technical_score, o.volume_score,
                                o.volatility_score>>), QInt(4))
        news == IF e.news_sentiment.empty THEN Q(1, 2)
                ELSE QDiv(QAdd(e.news_sentiment.impact_score, e.news_sentiment.relevance),
                          QInt(2))
        total == QSum(<<QMul(Q(4, 10), technical), QMul(Q(3, 10), news),
                        QMul(Q(3, 10), Q(1, 2))>>)
    IN  IF QGt(total, QOne) THEN QOne ELSE total

----------------------------------------------------------------------------
(* PairScanner: what a scan returns and what it caches *)

AliveDetLoops == {t \in DetLoops : InCycle(t) \/ AtBoundary(t)}

\* C25: for any interleaving of start_detection() and stop_detection(), at most
\* one _detection_loop task executes cycles at a time: never two tasks inside a
\* cycle, and never two live tasks while is_running is set (a stop during the
\* sleep of a loop followed by a start).
C25_OneDetectionLoop ==
    /\ Cardinality({t \in DetLoops : InCycle(t)}) <= 1
    /\ dt_is_running => Cardinality(AliveDetLoops) <= 1

-----------------------------------------------------------------------------
(* The normalized scores: fused and adjusted confidence, risk_score,
   overall_score, execution_score *)

\* what one strategy may return for the symbol, with confidences in [0, 1]
ScoreStrategyResults ==
    {ErrorResult,
     [error |-> FALSE, action |-> "buy", confidence |-> QOne],
     [error |-> FALSE, action |-> "sell", confidence |-> Q(1, 2)],
     [error |-> FALSE, action |-> "hold", confidence |-> QZero]}

ScoreAnalyses == [Strategies -> ScoreStrategyResults]

ScoreNews ==
    {NoNews,
     [empty |-> FALSE, score |-> QOne, impact_score |-> QOne, relevance |-> QOne],
     [empty |-> FALSE, score |-> QZero, impact_score |-> QZero, relevance |-> QZero]}

ScoreAi ==
    {NoAi} \cup
    {[empty |-> FALSE, recommendation |-> r, confidence |-> c] :
        r \in {"buy", "sell", "hold"}, c \in {QZero, QOne}}

ScoreInputs ==
    {[kind |-> "signal", analysis_results |-> a, ai_validation |-> v] :
        a \in ScoreAnalyses, v \in AiValidations}
    \cup
    {[kind |-> "opportunity", task |-> scan_tasks(MaxPairs)[k],
      analysis |-> AnalysisResult(st, act, c, NoLevels),
      news_sentiment |-> n, ai_analysis |-> ai] :
        k \in DOMAIN scan_tasks(MaxPairs), st \in {"fibonacci"}, act \in {"buy", "sell"},
        c \in {Q(6, 10), QOne}, n \in ScoreNews, ai \in ScoreAi}

\* one analysis of a symbol: _consolidate_signals, then _adjust_signal_with_ai
\* as _analyze_and_trade calls it with an AI; or one candidate:
\* _create_opportunity_from_analysis, then _calculate_execution_score
ComputeScores ==
    /\ scores = NotComputed
    /\ score_inputs # NoScoreInputs
    /\ scores' =
         IF score_inputs.kind = "signal"
         THEN <<consolidate_signals(score_inputs.analysis_results).confidence,
                cycle_signal(score_inputs.analysis_results, score_inputs.ai_validation,
                             TRUE).confidence,
                calculate_risk_score(score_inputs.analysis_results)>>
         ELSE LET opportunity ==
                      create_opportunity_from_analysis(score_inputs.task, 1,
                                                       score_inputs.analysis)
              IN  <<opportunity.overall_score,
                    calculate_execution_score(opportunity, score_inputs.news_sentiment,
                                              score_inputs.ai_analysis)>>
    /\ UNCHANGED <<score_inputs, riskVars, sizingVars, vtVars, fpVars, fuseVars, apVars,
                   scVars, dtVars, stpVars>>

InitScores ==
    /\ RiskIdle
    /\ SizingIdle
    /\ ValidateIdle
    /\ RankIdle
    /\ FuseIdle
    /\ AutopilotIdle
    /\ ScannerIdle
    /\ DetectorIdle
    /\ \E inputs \in ScoreInputs : ScoresConstructed(inputs)
    /\ StpIdle

NextScores == ComputeScores

SpecScores == InitScores /\ [][NextScores]_vars

\* C22: with strategy confidences, volume/volatility scores and advisory inputs
\* in [0, 1], every normalized score computed lies in [0, 1]: the fused
\* confidence, the confidence after the advisory adjustment, the risk_score,
\* the overall_score and the execution_score
C22_ScoresInUnitInterval ==
    \A n \in DOMAIN scores : QGe(scores[n], QZero) /\ QLe(scores[n], QOne)

\* all six strategies say buy with confidence 1, the fused confidence is 1, the
\* AI agrees and calls the risk low: the adjusted confidence is still 1
C22_Witness ==
    /\ score_inputs.kind = "signal"
    /\ scores # NotComputed
    /\ scores[1] = QOne
    /\ ~score_inputs.ai_validation.empty
    /\ score_inputs.ai_validation.ai_recommendation = "buy"
    /\ score_inputs.ai_validation.ai_risk_assessment = "bajo"
    /\ scores[2] = QOne


-----------------------------------------------------------------------------
(* The stop loss and take profit of a fused signal *)

MaxLevels == 3

\* the price of the symbol and the levels the support/resistance analysis may
\* report around it: supports below the price, resistances above it
stp_price == QInt(100)
StpLevels ==
    {[type |-> "support", price |-> p] : p \in {QInt(98), Q(998, 10)}} \cup
    {[type |-> "resistance", price |-> p] : p \in {Q(1002, 10), QInt(103)}}

StpCalls ==
    {[action |-> a, current_price |-> stp_price, levels |-> l] :
        a \in {"buy", "sell"}, l \in SeqsUpTo(StpLevels, MaxLevels)}

InitStp ==
    /\ RiskIdle
    /\ SizingIdle
    /\ ValidateIdle
    /\ RankIdle
    /\ FuseIdle
    /\ AutopilotIdle
    /\ ScannerIdle /\ ScoresIdle
    /\ DetectorIdle
    /\ \E call \in StpCalls : StpConstructed(call)

NextStp == CalculateStopTakeProfit

SpecStp == InitStp /\ [][NextStp]_vars

\* C27: every fused buy or sell signal carries both a stop_loss and a
\* take_profit on the correct sides of the entry price: stop_loss < price <
\* take_profit for buy, take_profit < price < stop_loss for sell, with levels
\* from the support/resistance analysis or from the fixed percentages.
C27_LevelsOnCorrectSides ==
    stp_result.returned =>
        /\ stp_result.stop_loss # None
        /\ stp_result.take_profit # None
        /\ stp_call.action = "buy" =>
              /\ QLt(stp_result.stop_loss, stp_call.current_price)
              /\ QLt(stp_call.current_price, stp_result.take_profit)
        /\ stp_call.action = "sell" =>
              /\ QLt(stp_result.take_profit, stp_call.current_price)
              /\ QLt(stp_call.current_price, stp_result.stop_loss)

============================================================================
